---- MODULE Spec2Model ----
(***************************************************************************)
(* Phase 1 of the cycle combination finder                                 *)
(* (src/src/cycle_combination_finder/src/optimal_combination_structures.py)*)
(*                                                                         *)
(* Python tuples and lists are modelled as sequences.  Sequences are       *)
(* 1-based: orbit i of the source is position i + 1 here.  Indices that    *)
(* the source stores as data (always_orient, critical_orient,              *)
(* first_constraint_indicies) keep their 0-based values.  None, for the    *)
(* optional orient lists, is the empty sequence: the source never stores   *)
(* an empty list there.                                                    *)
(***************************************************************************)
EXTENDS Integers, Sequences, FiniteSets, TLC

VARIABLES
    puzzle_orbit_definition,  \* argument of optimal_cycle_combinations
    num_cycles,               \* argument of optimal_cycle_combinations
    cache_clear,              \* argument, read at line 416
    pc,                       \* position in optimal_cycle_combinations
    used_cubie_counts,        \* loop variable of the outermost loop (line 223)
    cycle_combination_objs,   \* the candidates appended so far (line 219)
    reduced_cache,            \* functools.cache of reduced_integer_partitions
    highest_order_cache,      \* functools.cache of the highest-order search
    other_caches,             \* the entries of both caches whose key holds
                              \* another puzzle definition
    invocations,              \* calls of optimal_cycle_combinations so far
    partition_call,           \* n, x, the position in the inner loop and
                              \* answer of a call of integer_partitions
    previous_results,         \* the caller's record of the list returned by
                              \* the first call on each pair of arguments
    result,                   \* the list returned (line 420)
    refiltered,               \* the filter applied once more to result
    search_call               \* the locals of the while loop of line 507 of
                              \* a search under one share vector, and for
                              \* each frame of the stack the branch it is on

vars == <<puzzle_orbit_definition, num_cycles, cache_clear, pc,
          used_cubie_counts, cycle_combination_objs, reduced_cache,
          highest_order_cache, other_caches, invocations, partition_call,
          previous_results, result, refiltered, search_call>>

----------------------------------------------------------------------------
(* Bounds of the model *)

MaxOrbits == 2
MaxTotalCubies == 5
MaxCycles == 2
MaxInvocations == 3

----------------------------------------------------------------------------
(* Generic helpers on sequences *)

None == <<>>

AsTuple(f) == f \o <<>>

Min(a, b) == IF a < b THEN a ELSE b

Range(s) == {s[i] : i \in 1..Len(s)}

Contains(s, x) == \E i \in 1..Len(s) : s[i] = x

RECURSIVE SumSeq(_)
SumSeq(s) == IF s = <<>> THEN 0 ELSE Head(s) + SumSeq(Tail(s))

RECURSIVE ProdSeq(_)
ProdSeq(s) == IF s = <<>> THEN 1 ELSE Head(s) * ProdSeq(Tail(s))

RECURSIVE Flatten(_)
Flatten(ss) == IF ss = <<>> THEN <<>> ELSE Head(ss) \o Flatten(Tail(ss))

\* Python's < on tuples of integers
TupleLess(a, b) ==
    \E k \in 1..(Min(Len(a), Len(b)) + 1) :
        /\ \A m \in 1..(k - 1) : a[m] = b[m]
        /\ \/ k > Len(a) /\ k <= Len(b)
           \/ k <= Len(a) /\ k <= Len(b) /\ a[k] < b[k]

\* Python's < on tuples of tuples of integers
NestedTupleLess(a, b) ==
    \E k \in 1..(Min(Len(a), Len(b)) + 1) :
        /\ \A m \in 1..(k - 1) : a[m] = b[m]
        /\ \/ k > Len(a) /\ k <= Len(b)
           \/ k <= Len(a) /\ k <= Len(b) /\ TupleLess(a[k], b[k])

\* list.sort / sorted with reverse=True: descending and stable.  less[i][j]
\* says that the key of s[i] is less than the key of s[j].
SortedReverse(s, less) ==
    LET n == Len(s)
        rank == AsTuple([i \in 1..n |->
                    Cardinality({j \in 1..n :
                        \/ less[i][j]
                        \/ (~less[j][i] /\ j < i)})])
        at == AsTuple([r \in 1..n |-> CHOOSE i \in 1..n : rank[i] = r - 1])
    IN  AsTuple([r \in 1..n |-> s[at[r]]])

\* sorted(): ascending and stable
Sorted(s, less) ==
    LET n == Len(s)
        rank == AsTuple([i \in 1..n |->
                    Cardinality({j \in 1..n :
                        \/ less[j][i]
                        \/ (~less[i][j] /\ j < i)})])
        at == AsTuple([r \in 1..n |-> CHOOSE i \in 1..n : rank[i] = r - 1])
    IN  AsTuple([r \in 1..n |-> s[at[r]]])

\* sorted() of a tuple of integers
SortedInts(s) ==
    Sorted(s, AsTuple([i \in 1..Len(s) |->
                  AsTuple([j \in 1..Len(s) |-> s[i] < s[j]])]))

----------------------------------------------------------------------------
(* Number theory *)

RECURSIVE gcd(_, _)
gcd(a, b) == IF b = 0 THEN a ELSE gcd(b, a % b)

RECURSIVE lcm(_)
lcm(partition) ==
    IF partition = <<>> THEN 1
    ELSE LET rest == lcm(Tail(partition))
         IN  (Head(partition) * rest) \div gcd(Head(partition), rest)

RECURSIVE p_adic_valuation(_, _)
p_adic_valuation(n, p) ==
    IF n % p = 0 /\ n # 0 THEN 1 + p_adic_valuation(n \div p, p) ELSE 0

sign(partition) == SumSeq(partition) - Len(partition)

----------------------------------------------------------------------------
(* integer_partitions, memoized by functools.cache: the table holds the    *)
(* value for every n up to the largest orbit                               *)

MaxPartitionN == 12

RECURSIVE integer_partitions_cache(_)
integer_partitions_cache(n) ==
    IF n = 0 THEN <<{<<>>}>>
    ELSE LET cache == integer_partitions_cache(n - 1)
             answer == {<<n>>} \cup
                       UNION {{SortedInts(<<x>> \o y) : y \in cache[n - x + 1]}
                              : x \in 1..(n - 1)}
         IN  Append(cache, answer)

IntegerPartitionsTable == integer_partitions_cache(MaxPartitionN)

integer_partitions(n) == IntegerPartitionsTable[n + 1]

\* the elements of a set of tuples in ascending lexicographic order
SetAscending(S) ==
    LET rank == [x \in S |-> Cardinality({y \in S : TupleLess(y, x)})]
    IN  AsTuple([r \in 1..Cardinality(S) |-> CHOOSE x \in S : rank[x] = r - 1])

\* a sequence from its last element to its first
Reverse(s) == AsTuple([i \in 1..Len(s) |-> s[Len(s) + 1 - i]])

\* The order in which the loops of lines 150, 228 and 584 iterate the set
\* integer_partitions(n).  The language leaves the order of a set open;
\* CPython lays the set out by the hashes of its elements and the sequence
\* of the insertions of lines 146-151.  The hash of a tuple of integers is
\* not randomised and the insertions are the same in every call, so
\* every call of every run iterates the set in this one order (CPython
\* 3.11, list(integer_partitions(n)) for n = 0..12).
PartitionsIterated ==
    <<
        \* integer_partitions(0)
        <<
           <<>>
        >>,
        \* integer_partitions(1)
        <<
           <<1>>
        >>,
        \* integer_partitions(2)
        <<
           <<1, 1>>, <<2>>
        >>,
        \* integer_partitions(3)
        <<
           <<1, 2>>, <<3>>, <<1, 1, 1>>
        >>,
        \* integer_partitions(4)
        <<
           <<4>>, <<1, 1, 2>>, <<2, 2>>, <<1, 3>>, <<1, 1, 1, 1>>
        >>,
        \* integer_partitions(5)
        <<
           <<5>>, <<1, 1, 3>>, <<1, 4>>, <<2, 3>>, <<1, 2, 2>>, <<1, 1, 1, 2>>,
           <<1, 1, 1, 1, 1>>
        >>,
        \* integer_partitions(6)
        <<
           <<6>>, <<2, 4>>, <<1, 1, 1, 1, 1, 1>>, <<1, 5>>, <<1, 1, 1, 3>>,
           <<2, 2, 2>>, <<1, 2, 3>>, <<1, 1, 1, 1, 2>>, <<3, 3>>,
           <<1, 1, 2, 2>>, <<1, 1, 4>>
        >>,
        \* integer_partitions(7)
        <<
           <<2, 2, 3>>, <<1, 1, 1, 4>>, <<1, 1, 1, 1, 1, 1, 1>>, <<3, 4>>,
           <<1, 1, 2, 3>>, <<1, 1, 1, 1, 3>>, <<1, 1, 1, 1, 1, 2>>, <<7>>,
           <<1, 1, 5>>, <<1, 2, 2, 2>>, <<1, 3, 3>>, <<1, 1, 1, 2, 2>>,
           <<1, 6>>, <<2, 5>>, <<1, 2, 4>>
        >>,
        \* integer_partitions(8)
        <<
           <<1, 1, 1, 1, 1, 3>>, <<1, 1, 2, 4>>, <<1, 1, 1, 2, 3>>, <<8>>,
           <<1, 2, 2, 3>>, <<1, 1, 1, 5>>, <<1, 2, 5>>, <<1, 1, 1, 1, 4>>,
           <<2, 3, 3>>, <<1, 1, 1, 1, 1, 1, 1, 1>>, <<1, 1, 6>>, <<2, 2, 4>>,
           <<2, 2, 2, 2>>, <<3, 5>>, <<4, 4>>, <<1, 1, 3, 3>>, <<1, 3, 4>>,
           <<1, 7>>, <<1, 1, 1, 1, 2, 2>>, <<1, 1, 1, 1, 1, 1, 2>>, <<2, 6>>,
           <<1, 1, 2, 2, 2>>
        >>,
        \* integer_partitions(9)
        <<
           <<1, 1, 1, 1, 1, 1, 1, 2>>, <<2, 2, 5>>,
           <<1, 1, 1, 1, 1, 1, 1, 1, 1>>, <<2, 2, 2, 3>>,
           <<1, 1, 1, 1, 1, 2, 2>>, <<1, 2, 2, 2, 2>>, <<4, 5>>, <<3, 6>>,
           <<1, 2, 3, 3>>, <<1, 1, 1, 2, 2, 2>>, <<1, 4, 4>>,
           <<1, 1, 1, 1, 2, 3>>, <<1, 3, 5>>, <<1, 1, 3, 4>>, <<2, 7>>,
           <<1, 8>>, <<1, 1, 1, 1, 1, 1, 3>>, <<1, 1, 2, 2, 3>>, <<1, 1, 2, 5>>,
           <<1, 1, 1, 1, 1, 4>>, <<9>>, <<1, 1, 1, 2, 4>>, <<1, 1, 1, 3, 3>>,
           <<1, 2, 2, 4>>, <<1, 2, 6>>, <<1, 1, 1, 6>>, <<3, 3, 3>>,
           <<2, 3, 4>>, <<1, 1, 1, 1, 5>>, <<1, 1, 7>>
        >>,
        \* integer_partitions(10)
        <<
           <<1, 1, 1, 1, 1, 1, 1, 1, 1, 1>>, <<1, 2, 2, 2, 3>>,
           <<1, 1, 1, 1, 2, 2, 2>>, <<1, 1, 1, 1, 3, 3>>, <<3, 7>>, <<4, 6>>,
           <<1, 2, 3, 4>>, <<1, 1, 2, 3, 3>>, <<1, 1, 1, 2, 2, 3>>,
           <<1, 1, 3, 5>>, <<1, 3, 6>>, <<1, 1, 4, 4>>, <<1, 4, 5>>, <<1, 9>>,
           <<1, 1, 1, 1, 2, 4>>, <<2, 8>>, <<1, 1, 2, 2, 4>>,
           <<1, 1, 1, 1, 1, 1, 4>>, <<1, 1, 2, 6>>, <<1, 1, 1, 3, 4>>, <<10>>,
           <<1, 1, 1, 1, 1, 5>>, <<1, 2, 2, 5>>, <<1, 1, 1, 2, 5>>, <<1, 2, 7>>,
           <<1, 1, 1, 7>>, <<3, 3, 4>>, <<1, 1, 1, 1, 6>>, <<2, 3, 5>>,
           <<2, 4, 4>>, <<1, 1, 1, 1, 1, 1, 1, 3>>, <<2, 2, 2, 2, 2>>,
           <<1, 1, 1, 1, 1, 1, 2, 2>>, <<1, 1, 8>>, <<5, 5>>, <<2, 2, 6>>,
           <<1, 3, 3, 3>>, <<2, 2, 3, 3>>, <<1, 1, 1, 1, 1, 1, 1, 1, 2>>,
           <<1, 1, 2, 2, 2, 2>>, <<2, 2, 2, 4>>, <<1, 1, 1, 1, 1, 2, 3>>
        >>,
        \* integer_partitions(11)
        <<
           <<1, 1, 2, 7>>, <<11>>, <<1, 1, 1, 1, 1, 6>>, <<1, 1, 1, 2, 6>>,
           <<1, 2, 2, 2, 2, 2>>, <<1, 1, 1, 3, 5>>, <<1, 2, 2, 6>>,
           <<1, 1, 1, 8>>, <<3, 3, 5>>, <<1, 2, 8>>, <<3, 4, 4>>,
           <<1, 1, 1, 1, 1, 1, 1, 2, 2>>, <<1, 1, 1, 1, 7>>, <<2, 4, 5>>,
           <<2, 3, 6>>, <<1, 1, 9>>, <<1, 1, 1, 1, 1, 1, 2, 3>>,
           <<1, 1, 1, 1, 1, 1, 1, 4>>, <<2, 2, 2, 2, 3>>, <<1, 1, 1, 1, 2, 5>>,
           <<5, 6>>, <<2, 2, 7>>, <<2, 3, 3, 3>>, <<1, 3, 3, 4>>,
           <<2, 2, 3, 4>>, <<1, 1, 1, 1, 1, 1, 1, 1, 3>>, <<1, 1, 2, 2, 2, 3>>,
           <<1, 2, 2, 3, 3>>, <<1, 1, 1, 1, 1, 2, 4>>, <<1, 1, 1, 1, 1, 3, 3>>,
           <<1, 1, 1, 1, 1, 1, 1, 1, 1, 1, 1>>, <<2, 2, 2, 5>>,
           <<1, 2, 2, 2, 4>>, <<1, 1, 1, 1, 2, 2, 3>>,
           <<1, 1, 1, 1, 1, 2, 2, 2>>, <<1, 5, 5>>,
           <<1, 1, 1, 1, 1, 1, 1, 1, 1, 2>>, <<1, 1, 1, 2, 2, 2, 2>>, <<4, 7>>,
           <<1, 1, 1, 1, 3, 4>>, <<3, 8>>, <<1, 2, 4, 4>>, <<1, 1, 2, 3, 4>>,
           <<1, 1, 1, 2, 2, 4>>, <<1, 2, 3, 5>>, <<1, 1, 1, 2, 3, 3>>,
           <<1, 4, 6>>, <<1, 1, 3, 3, 3>>, <<1, 1, 3, 6>>, <<1, 3, 7>>,
           <<1, 1, 4, 5>>, <<2, 9>>, <<1, 10>>, <<1, 1, 1, 4, 4>>,
           <<1, 1, 1, 1, 1, 1, 5>>, <<1, 1, 2, 2, 5>>
        >>,
        \* integer_partitions(12)
        <<
           <<1, 1, 1, 1, 2, 2, 2, 2>>, <<2, 2, 2, 2, 4>>,
           <<1, 1, 1, 1, 1, 1, 1, 1, 4>>, <<1, 1, 1, 1, 1, 1, 2, 2, 2>>,
           <<2, 2, 2, 6>>, <<1, 1, 1, 1, 1, 2, 5>>, <<1, 1, 1, 1, 2, 6>>,
           <<1, 1, 1, 4, 5>>, <<1, 1, 1, 1, 1, 7>>, <<1, 1, 1, 2, 7>>,
           <<1, 2, 2, 2, 2, 3>>, <<1, 1, 1, 1, 1, 1, 3, 3>>, <<3, 3, 6>>,
           <<3, 4, 5>>, <<1, 1, 2, 2, 2, 2, 2>>, <<6, 6>>,
           <<1, 1, 1, 1, 1, 1, 1, 5>>, <<1, 1, 1, 1, 1, 1, 2, 4>>, <<5, 7>>,
           <<2, 2, 3, 5>>, <<1, 1, 1, 1, 2, 3, 3>>,
           <<1, 1, 1, 1, 1, 1, 1, 1, 1, 1, 2>>, <<1, 5, 6>>,
           <<1, 1, 1, 1, 1, 1, 1, 1, 1, 3>>, <<1, 1, 1, 1, 1, 1, 1, 1, 2, 2>>,
           <<1, 1, 1, 1, 1, 2, 2, 3>>, <<1, 2, 3, 6>>, <<1, 1, 1, 1, 3, 5>>,
           <<1, 2, 4, 5>>, <<1, 3, 8>>, <<1, 4, 7>>, <<1, 1, 3, 3, 4>>,
           <<1, 1, 1, 1, 1, 1, 6>>, <<1, 1, 1, 1, 1, 1, 1, 1, 1, 1, 1, 1>>,
           <<12>>, <<1, 1, 1, 9>>, <<1, 3, 4, 4>>, <<1, 1, 2, 2, 3, 3>>,
           <<2, 3, 3, 4>>, <<4, 4, 4>>, <<1, 2, 2, 3, 4>>, <<1, 1, 2, 2, 2, 4>>,
           <<1, 1, 2, 4, 4>>, <<1, 2, 2, 2, 5>>, <<3, 9>>, <<4, 8>>,
           <<1, 1, 1, 2, 2, 2, 3>>, <<1, 1, 2, 3, 5>>, <<1, 1, 1, 2, 2, 5>>,
           <<1, 1, 1, 2, 3, 4>>, <<1, 11>>, <<2, 10>>, <<1, 2, 3, 3, 3>>,
           <<1, 2, 2, 7>>, <<2, 5, 5>>, <<1, 2, 9>>, <<2, 2, 2, 3, 3>>,
           <<2, 3, 7>>, <<2, 4, 6>>, <<1, 1, 10>>, <<2, 2, 4, 4>>, <<2, 2, 8>>,
           <<1, 3, 3, 5>>, <<1, 1, 1, 1, 4, 4>>, <<1, 1, 1, 1, 1, 3, 4>>,
           <<3, 3, 3, 3>>, <<1, 1, 5, 5>>, <<1, 1, 1, 1, 2, 2, 4>>,
           <<1, 1, 3, 7>>, <<1, 1, 4, 6>>, <<2, 2, 2, 2, 2, 2>>,
           <<1, 1, 2, 2, 6>>, <<1, 1, 2, 8>>, <<1, 1, 1, 3, 6>>,
           <<1, 1, 1, 3, 3, 3>>, <<1, 1, 1, 1, 8>>, <<1, 1, 1, 1, 1, 1, 1, 2, 3>>
        >>
    >>

\* for y in integer_partitions(n) (lines 150, 228, 584)
iter_integer_partitions(n) ==
    PartitionsIterated[n + 1]

----------------------------------------------------------------------------
(* common_types.py *)

CannotOrient ==
    [kind |-> "CannotOrient", count |-> 0, sum_constraint |-> "NONE"]

CanOrient(count, sum_constraint) ==
    [kind |-> "CanOrient", count |-> count, sum_constraint |-> sum_constraint]

Orbit(name, cubie_count, orientation_status) ==
    [name |-> name, cubie_count |-> cubie_count,
     orientation_status |-> orientation_status]

EvenParityConstraint(orbit_names) == [orbit_names |-> orbit_names]

PuzzleOrbitDefinition(orbits, even_parity_constraints) ==
    [orbits |-> orbits, even_parity_constraints |-> even_parity_constraints]

----------------------------------------------------------------------------
(* EvenParityConstraintsHelper.from_puzzle_orbit_definition *)

\* constraint_flag of orbit i (1-based) for one constraint (lines 81-84)
constraint_flag(pdef, even_parity_constraint, i) ==
    Contains(even_parity_constraint.orbit_names, pdef.orbits[i].name)

\* the ValueError of lines 93-96
invalid_orbit_names(pdef) ==
    \E c \in 1..Len(pdef.even_parity_constraints) :
        LET epc == pdef.even_parity_constraints[c]
        IN  Cardinality({i \in 1..Len(pdef.orbits) :
                             constraint_flag(pdef, epc, i)})
                # Len(epc.orbit_names)

\* lines 76-102 with first_index the last flagged orbit
first_index_and_rest_constraint_flags_last(pdef, even_parity_constraint) ==
    LET n == Len(pdef.orbits)
        flagged == {i \in 1..n : constraint_flag(pdef, even_parity_constraint, i)}
        first == CHOOSE i \in flagged : \A j \in flagged : i >= j
    IN  <<first - 1,
          AsTuple([j \in 1..(n - first) |->
              constraint_flag(pdef, even_parity_constraint, first + j)])>>

\* (first_index, rest_constraint_flags) of one constraint (lines 76-102);
\* first_index keeps the 0-based value of the source
first_index_and_rest_constraint_flags(pdef, even_parity_constraint) ==
    LET n == Len(pdef.orbits)
        flagged == {i \in 1..n : constraint_flag(pdef, even_parity_constraint, i)}
        first == CHOOSE i \in flagged : \A j \in flagged : i <= j
    IN  <<first - 1,
          AsTuple([j \in 1..(n - first) |->
              constraint_flag(pdef, even_parity_constraint, first + j)])>>

FirstIndexLess(a, b) == a[1] < b[1]

from_puzzle_orbit_definition(pdef) ==
    LET unsorted == AsTuple([c \in 1..Len(pdef.even_parity_constraints) |->
                        first_index_and_rest_constraint_flags(
                            pdef, pdef.even_parity_constraints[c])])
        all == SortedReverse(unsorted,
                   AsTuple([i \in 1..Len(unsorted) |->
                       AsTuple([j \in 1..Len(unsorted) |->
                           FirstIndexLess(unsorted[i], unsorted[j])])]))
    IN  [first_constraint_indicies |-> AsTuple([c \in 1..Len(all) |-> all[c][1]]),
         rest_constraint_flags |-> AsTuple([c \in 1..Len(all) |-> all[c][2]]),
         constraint_orbit_flags |->
             AsTuple([i \in 1..Len(pdef.orbits) |->
                 \E c \in 1..Len(pdef.even_parity_constraints) :
                     constraint_flag(pdef, pdef.even_parity_constraints[c], i)])]

----------------------------------------------------------------------------
(* reduced_integer_partitions *)

CubiePartition(name, partition, order, always_orient, critical_orient) ==
    [name |-> name, partition |-> partition, order |-> order,
     always_orient |-> always_orient, critical_orient |-> critical_orient]

\* the loop of lines 597-611 from position j (1-based) on; the lists hold
\* the 0-based positions of the source
RECURSIVE orient_scan(_, _, _, _, _, _)
orient_scan(partition, j, orientation_count, max_p_adic_valuation, critical_orient, always_orient) ==
    IF j > Len(partition)
    THEN [critical_orient |-> critical_orient, always_orient |-> always_orient]
    ELSE LET curr_p_adic_valuation ==
                 p_adic_valuation(partition[j], orientation_count)
             always == IF partition[j] = 1
                       THEN Append(always_orient, j - 1)
                       ELSE always_orient
         IN  IF curr_p_adic_valuation > max_p_adic_valuation
             THEN orient_scan(partition, j + 1, orientation_count,
                              curr_p_adic_valuation, <<j - 1>>, always)
             ELSE IF curr_p_adic_valuation = max_p_adic_valuation
             THEN orient_scan(partition, j + 1, orientation_count,
                              max_p_adic_valuation,
                              Append(critical_orient, j - 1), always)
             ELSE orient_scan(partition, j + 1, orientation_count,
                              max_p_adic_valuation, critical_orient, always)

\* orient_count without the critical cycle counted
orient_count_without_critical(always_orient, critical_is_disjoint) ==
    Len(always_orient)

\* orient_count of lines 618-624
orient_count_of(always_orient, critical_is_disjoint) ==
    Len(always_orient) + (IF critical_is_disjoint THEN 1 ELSE 0)

\* unorient_critical without the case of lines 628-629
unorient_critical_of_two_only(partition, orientation_count, orient_count) ==
    /\ orient_count = Len(partition)
    /\ orientation_count = 2 /\ orient_count % 2 = 1

\* unorient_critical without the test orient_count == len(partition)
unorient_critical_of_any_length(partition, orientation_count, orient_count) ==
    \/ orientation_count = 2 /\ orient_count % 2 = 1
    \/ orientation_count > 2 /\ orient_count = 1

\* unorient_critical of lines 625-630
unorient_critical_of(partition, orientation_count, orient_count) ==
    /\ orient_count = Len(partition)
    /\ \/ orientation_count = 2 /\ orient_count % 2 = 1
       \/ orientation_count > 2 /\ orient_count = 1

\* the body of the loop of lines 584-649 for one partition of the set:
\* <<>> when the partition is skipped (line 633), else the one
\* CubiePartition appended
partition_obj_of(partition0, s, orbit) ==
    LET partition == IF s THEN <<1>> \o partition0 ELSE partition0
        lcm_val == lcm(partition)
        status == orbit.orientation_status
    IN  IF status.kind = "CanOrient"
        THEN LET orientation_count == status.count
                 scan == orient_scan(partition, 1, orientation_count, -1,
                                     None, None)
                 always_orient == scan.always_orient
                 critical_orient == scan.critical_orient
             IN  IF status.sum_constraint = "NONE"
                 THEN <<CubiePartition(orbit.name, partition,
                            IF critical_orient # None
                            THEN lcm_val * orientation_count ELSE lcm_val,
                            always_orient, critical_orient)>>
                 ELSE LET critical_is_disjoint ==
                              /\ critical_orient # None
                              /\ \/ always_orient = None
                                 \/ \A j \in Range(critical_orient) :
                                        ~Contains(always_orient, j)
                          orient_count ==
                              orient_count_of(always_orient, critical_is_disjoint)
                      IN  IF unorient_critical_of(partition, orientation_count,
                                                  orient_count)
                          THEN IF ~critical_is_disjoint
                               THEN <<>>
                               ELSE <<CubiePartition(orbit.name, partition,
                                          lcm_val, always_orient, None)>>
                          ELSE <<CubiePartition(orbit.name, partition,
                                     IF orient_count # 0
                                     THEN lcm_val * orientation_count
                                     ELSE lcm_val,
                                     always_orient, critical_orient)>>
        ELSE <<CubiePartition(orbit.name, partition, lcm_val, None, None)>>

OrderLess(a, b) == a.order < b.order

\* the condition of lines 660-674 without the test of the signs
partition_dominates_any_sign(curr_partition_obj, other, constraint_orbit_flag) ==
    /\ curr_partition_obj.order % other.order = 0
    /\ curr_partition_obj.order # other.order

\* the condition of lines 660-674 without the test of line 662
partition_dominates_or_equal(curr_partition_obj, other, constraint_orbit_flag) ==
    /\ curr_partition_obj.order % other.order = 0
    /\ \/ ~constraint_orbit_flag
       \/ (sign(curr_partition_obj.partition) + sign(other.partition)) % 2 = 0

\* the condition of lines 660-674: curr dominates other
partition_dominates(curr_partition_obj, other, constraint_orbit_flag) ==
    /\ curr_partition_obj.order % other.order = 0
    /\ curr_partition_obj.order # other.order
    /\ \/ ~constraint_orbit_flag
       \/ (sign(curr_partition_obj.partition) + sign(other.partition)) % 2 = 0

\* the loop of lines 654-675 from position i on
RECURSIVE reduce_dominated(_, _, _, _, _)
reduce_dominated(partition_objs, i, dominated, reduced_partition_objs, constraint_orbit_flag) ==
    IF i > Len(partition_objs) THEN reduced_partition_objs
    ELSE IF i \in dominated
    THEN reduce_dominated(partition_objs, i + 1, dominated,
                          reduced_partition_objs, constraint_orbit_flag)
    ELSE reduce_dominated(
             partition_objs, i + 1,
             dominated \cup
                 {j \in (i + 1)..Len(partition_objs) :
                     partition_dominates(partition_objs[i], partition_objs[j],
                                         constraint_orbit_flag)},
             Append(reduced_partition_objs, partition_objs[i]),
             constraint_orbit_flag)

\* lines 584-651: the accepted partitions, sorted by order descending
sorted_partition_objs(cycle_cubie_count, orbit_index, s, pdef) ==
    LET partitions == iter_integer_partitions(cycle_cubie_count)
        orbit == pdef.orbits[orbit_index]
        objs == Flatten(AsTuple([p \in 1..Len(partitions) |->
                            partition_obj_of(partitions[p], s, orbit)]))
    IN  SortedReverse(objs,
            AsTuple([i \in 1..Len(objs) |->
                AsTuple([j \in 1..Len(objs) |-> OrderLess(objs[i], objs[j])])]))

\* orbit_index is 1-based
reduced_integer_partitions(cycle_cubie_count, orbit_index, s, pdef, even_parity_constraints_helper) ==
    reduce_dominated(
        sorted_partition_objs(cycle_cubie_count, orbit_index, s, pdef),
        1, {}, <<>>,
        even_parity_constraints_helper.constraint_orbit_flags[orbit_index])

\* the value functools.cache gives for reduced_integer_partitions: the
\* stored entry when the key is in the cache, else the computed one
cached_reduced_integer_partitions(rcache, cycle_cubie_count, orbit_index, s, pdef, even_parity_constraints_helper) ==
    IF <<cycle_cubie_count, orbit_index, s>> \in DOMAIN rcache
    THEN rcache[<<cycle_cubie_count, orbit_index, s>>]
    ELSE reduced_integer_partitions(cycle_cubie_count, orbit_index, s, pdef,
                                    even_parity_constraints_helper)

----------------------------------------------------------------------------
(* highest_order_cycles_from_cubie_counts *)

Cycle(order, share, partition_objs) ==
    [order |-> order, share |-> share, partition_objs |-> partition_objs]

\* the None of partition_obj_path slots and of the first stack frame
NonePartitionObj == CubiePartition("", <<>>, 0, None, None)

\* share_state with a budget of 1 left free to share or not
share_state_one_free(cycle_cubie_counts, pdef, i) ==
    IF \/ cycle_cubie_counts[i] = 0
       \/ pdef.orbits[i].orientation_status = CannotOrient
    THEN "CANNOT_SHARE_ORIENTATION"
    ELSE "FREE"

\* lines 456-468; i is 1-based
share_state(cycle_cubie_counts, pdef, i) ==
    IF \/ cycle_cubie_counts[i] = 0
       \/ pdef.orbits[i].orientation_status = CannotOrient
    THEN "CANNOT_SHARE_ORIENTATION"
    ELSE IF cycle_cubie_counts[i] = 1 THEN "MUST_SHARE_ORIENTATION"
    ELSE "FREE"

\* itertools.product((False, True), repeat=n), in its order
RECURSIVE product_false_true(_)
product_false_true(n) ==
    IF n = 0 THEN <<<<>>>>
    ELSE LET rest == product_false_true(n - 1)
         IN  AsTuple([k \in 1..(2 * Len(rest)) |->
                 IF k <= Len(rest) THEN <<FALSE>> \o rest[k]
                 ELSE <<TRUE>> \o rest[k - Len(rest)]])

\* share_of with free_share_next_index left at 0
share_of_first_free(share_states, free_share) ==
    AsTuple([i \in 1..Len(share_states) |->
        IF share_states[i] = "FREE" THEN free_share[1]
        ELSE share_states[i] = "MUST_SHARE_ORIENTATION"])

\* lines 473-483: the share vector of one free_share
share_of(share_states, free_share) ==
    AsTuple([i \in 1..Len(share_states) |->
        IF share_states[i] = "FREE"
        THEN free_share[Cardinality({j \in 1..i : share_states[j] = "FREE"})]
        ELSE share_states[i] = "MUST_SHARE_ORIENTATION"])

\* the share vectors of lines 469-483, in the order they are tried
share_vectors(cycle_cubie_counts, pdef) ==
    LET share_states == AsTuple([i \in 1..Len(cycle_cubie_counts) |->
                            share_state(cycle_cubie_counts, pdef, i)])
        free_share_count ==
            Cardinality({i \in 1..Len(share_states) : share_states[i] = "FREE"})
        free_shares == product_false_true(free_share_count)
    IN  AsTuple([k \in 1..Len(free_shares) |-> share_of(share_states, free_shares[k])])

\* lines 484-493
all_reduced_integer_partitions_of(cycle_cubie_counts, share, pdef, helper, rcache) ==
    AsTuple([i \in 1..Len(cycle_cubie_counts) |->
        cached_reduced_integer_partitions(rcache, cycle_cubie_counts[i], i,
                                          share[i], pdef, helper)])

\* lines 495-504: rest_upper_bounds[i] is the product of the first orders
\* of the tables of the orbits before i
rest_upper_bounds_of(all_reduced_integer_partitions) ==
    AsTuple([i \in 1..Len(all_reduced_integer_partitions) |->
        ProdSeq([m \in 1..(i - 1) |->
                    all_reduced_integer_partitions[m][1].order])])

\* lines 514-541: the parity checks made when a frame is popped.  i is the
\* frame's i of the source (orbit i + 1 of the source was just assigned).
\* The result is -1 when a check fails (continue_outer), else the next
\* constraint index.
\* parity_gate with the rest of the path left out of the sum
RECURSIVE parity_gate_own_sign(_, _, _, _, _)
parity_gate_own_sign(i, partition_obj, partition_obj_path, next_even_parity_constraint_index, helper) ==
    IF /\ next_even_parity_constraint_index
              < Len(helper.first_constraint_indicies)
       /\ i + 1 = helper.first_constraint_indicies[
                      next_even_parity_constraint_index + 1]
    THEN IF sign(partition_obj.partition) % 2 # 0 THEN -1
         ELSE parity_gate_own_sign(i, partition_obj, partition_obj_path,
                                   next_even_parity_constraint_index + 1,
                                   helper)
    ELSE next_even_parity_constraint_index

RECURSIVE parity_gate(_, _, _, _, _)
parity_gate(i, partition_obj, partition_obj_path, next_even_parity_constraint_index, helper) ==
    IF /\ next_even_parity_constraint_index
              < Len(helper.first_constraint_indicies)
       /\ i + 1 = helper.first_constraint_indicies[
                      next_even_parity_constraint_index + 1]
    THEN LET flags == helper.rest_constraint_flags[
                          next_even_parity_constraint_index + 1]
             rest == Len(partition_obj_path) - (i + 2)
             total == sign(partition_obj.partition)
                      + SumSeq(AsTuple([j \in 1..rest |->
                                   IF flags[j]
                                   THEN sign(partition_obj_path[i + 2 + j].partition)
                                   ELSE 0]))
         IN  IF total % 2 # 0 THEN -1
             ELSE parity_gate(i, partition_obj, partition_obj_path,
                              next_even_parity_constraint_index + 1, helper)
    ELSE next_even_parity_constraint_index

Frame(i, running_order, partition_obj, next_even_parity_constraint_index) ==
    [i |-> i, running_order |-> running_order, partition_obj |-> partition_obj,
     next_even_parity_constraint_index |-> next_even_parity_constraint_index]

\* the test of line 546 without the bound of the orbits still to assign
pruned_without_rest_upper_bound(running_order, partition_obj, rest_upper_bound_i, highest_order) ==
    running_order * partition_obj.order < highest_order

\* line 546: the candidate is not pushed and the loop over the level ends
pruned(running_order, partition_obj, rest_upper_bound_i, highest_order) ==
    running_order * partition_obj.order * rest_upper_bound_i < highest_order

\* pushed_frames with the product of the orders in place of their LCM
pushed_frames_product(i, running_order, next_index, table, rest_upper_bound_i, highest_order) ==
    LET stop == {k \in 1..Len(table) :
                    pruned(running_order, table[k], rest_upper_bound_i,
                           highest_order)}
        count == IF stop = {} THEN Len(table)
                 ELSE (CHOOSE k \in stop : \A m \in stop : k <= m) - 1
    IN  AsTuple([k \in 1..count |->
            Frame(i - 1, running_order * table[k].order, table[k],
                  next_index)])

\* lines 544-556: the frames pushed for level i (0-based), in push order
pushed_frames(i, running_order, next_index, table, rest_upper_bound_i, highest_order) ==
    LET stop == {k \in 1..Len(table) :
                    pruned(running_order, table[k], rest_upper_bound_i,
                           highest_order)}
        count == IF stop = {} THEN Len(table)
                 ELSE (CHOOSE k \in stop : \A m \in stop : k <= m) - 1
    IN  AsTuple([k \in 1..count |->
            Frame(i - 1,
                  (running_order * table[k].order)
                      \div gcd(running_order, table[k].order),
                  table[k], next_index)])

\* the while loop of lines 507-569; st is the state of the loop
RECURSIVE search_loop(_, _, _, _, _)
search_loop(st, all_reduced_integer_partitions, rest_upper_bounds, share, helper) ==
    IF st.stack = <<>> THEN st
    ELSE
    LET frame == st.stack[Len(st.stack)]
        popped == SubSeq(st.stack, 1, Len(st.stack) - 1)
        i == frame.i
        path == IF frame.partition_obj # NonePartitionObj
                THEN [st.partition_obj_path EXCEPT ![i + 2] = frame.partition_obj]
                ELSE st.partition_obj_path
        next_index == parity_gate(i, frame.partition_obj, path,
                                  frame.next_even_parity_constraint_index,
                                  helper)
        next_st ==
            IF next_index = -1
            THEN [st EXCEPT !.stack = popped, !.partition_obj_path = path]
            ELSE IF i # -1
            THEN [st EXCEPT
                     !.stack = popped \o
                         pushed_frames(i, frame.running_order, next_index,
                                       all_reduced_integer_partitions[i + 1],
                                       rest_upper_bounds[i + 1],
                                       st.highest_order),
                     !.partition_obj_path = path]
            ELSE IF frame.running_order < st.highest_order
            THEN [st EXCEPT !.stack = popped, !.partition_obj_path = path]
            ELSE [stack |-> popped,
                  partition_obj_path |-> path,
                  highest_order |-> frame.running_order,
                  cycles |->
                      Append(IF frame.running_order > st.highest_order
                             THEN <<>> ELSE st.cycles,
                             Cycle(frame.running_order, share, path))]
    IN  search_loop(next_st, all_reduced_integer_partitions,
                    rest_upper_bounds, share, helper)

\* lines 484-569: the search under one share vector, entered with the
\* highest_order left by the share vectors tried before
search_share(cycle_cubie_counts, share, highest_order, pdef, helper, rcache) ==
    LET tables == all_reduced_integer_partitions_of(cycle_cubie_counts, share,
                                                    pdef, helper, rcache)
        n == Len(tables)
    IN  search_loop([stack |-> <<Frame(n - 1, 1, NonePartitionObj, 0)>>,
                     partition_obj_path |-> AsTuple([m \in 1..n |-> NonePartitionObj]),
                     highest_order |-> highest_order,
                     cycles |-> <<>>],
                    tables, rest_upper_bounds_of(tables), share, helper)

\* highest_order when the search of the k-th share vector is entered
RECURSIVE entry_highest_order(_, _, _, _, _)
entry_highest_order(cycle_cubie_counts, k, pdef, helper, rcache) ==
    IF k = 1 THEN 1
    ELSE search_share(cycle_cubie_counts,
                      share_vectors(cycle_cubie_counts, pdef)[k - 1],
                      entry_highest_order(cycle_cubie_counts, k - 1, pdef,
                                          helper, rcache),
                      pdef, helper, rcache).highest_order

\* the loop of lines 469-570 over the share vectors from position k on
RECURSIVE search_shares(_, _, _, _, _, _, _, _)
search_shares(cycle_cubie_counts, shares, k, highest_order, shared_cycles, pdef, helper, rcache) ==
    IF k > Len(shares) THEN shared_cycles
    ELSE LET st == search_share(cycle_cubie_counts, shares[k], highest_order,
                                pdef, helper, rcache)
         IN  search_shares(cycle_cubie_counts, shares, k + 1,
                           st.highest_order, shared_cycles \o st.cycles,
                           pdef, helper, rcache)

highest_order_cycles_from_cubie_counts(cycle_cubie_counts, pdef, helper, rcache) ==
    search_shares(cycle_cubie_counts, share_vectors(cycle_cubie_counts, pdef),
                  1, 1, <<>>, pdef, helper, rcache)

----------------------------------------------------------------------------
(* itertools *)

\* itertools.product(*seqs): the last position varies fastest
RECURSIVE product(_)
product(seqs) ==
    IF seqs = <<>> THEN <<<<>>>>
    ELSE LET rest == product(Tail(seqs))
             first == Head(seqs)
             n == Len(rest)
         IN  AsTuple([k \in 1..(Len(first) * n) |->
                 <<first[((k - 1) \div n) + 1]>> \o rest[((k - 1) % n) + 1]])

\* itertools.permutations(s)
RECURSIVE permutations(_)
permutations(s) ==
    IF s = <<>> THEN <<<<>>>>
    ELSE Flatten(AsTuple([i \in 1..Len(s) |->
             LET rest == permutations(SubSeq(s, 1, i - 1)
                                      \o SubSeq(s, i + 1, Len(s)))
             IN  [k \in 1..Len(rest) |-> <<s[i]>> \o rest[k]]]))

\* itertools.combinations(s, r)
RECURSIVE combinations(_, _)
combinations(s, r) ==
    IF r = 0 THEN <<<<>>>>
    ELSE IF Len(s) < r THEN <<>>
    ELSE LET with == combinations(Tail(s), r - 1)
         IN  AsTuple([k \in 1..Len(with) |-> <<Head(s)>> \o with[k]])
             \o combinations(Tail(s), r)

\* the loop of lines 158-161 from position k on
RECURSIVE unique_from(_, _, _)
unique_from(perms, k, previous) ==
    IF k > Len(perms) THEN <<>>
    ELSE IF TupleLess(previous, perms[k])
    THEN <<perms[k]>> \o unique_from(perms, k + 1, perms[k])
    ELSE unique_from(perms, k + 1, previous)

unique_permutations(iterable) ==
    unique_from(permutations(SortedInts(iterable)), 1, <<>>)

----------------------------------------------------------------------------
(* optimal_cycle_combinations: one used_cubie_counts tuple *)

CycleCombination(used, order_product, share_orders, cycle_combination) ==
    [used_cubie_counts |-> used, order_product |-> order_product,
     share_orders |-> share_orders, cycle_combination |-> cycle_combination]

partitions_of(cycle) ==
    AsTuple([k \in 1..Len(cycle.partition_objs) |-> cycle.partition_objs[k].partition])

\* lines 227-239: the padded choices of one partition per orbit
all_partition_cubie_counts_of(used, n_cycles) ==
    LET choices == product(AsTuple([i \in 1..Len(used) |->
                               iter_integer_partitions(used[i])]))
        fits == SelectSeq(choices,
                    LAMBDA c : \A i \in 1..Len(c) : Len(c[i]) <= n_cycles)
    IN  AsTuple([k \in 1..Len(fits) |->
            [i \in 1..Len(used) |->
                fits[k][i] \o [m \in 1..(n_cycles - Len(fits[k][i])) |-> 0]]])

\* the test of lines 249-256 without the case of a CannotOrient orbit
empty_column_zero_only(cubie_counts, pdef) ==
    \A i \in 1..Len(cubie_counts) : cubie_counts[i] = 0

\* lines 249-256: a column that contributes nothing
empty_column(cubie_counts, pdef) ==
    \A i \in 1..Len(cubie_counts) :
        \/ cubie_counts[i] = 0
        \/ /\ pdef.orbits[i].orientation_status = CannotOrient
           /\ cubie_counts[i] = 1

\* zip(*all_permuted_partition_cubie_counts)
columns_of(all_permuted_partition_cubie_counts, n_cycles) ==
    AsTuple([j \in 1..n_cycles |->
        [i \in 1..Len(all_permuted_partition_cubie_counts) |->
            all_permuted_partition_cubie_counts[i][j]]])

\* the loop of lines 242-267 over the permuted choices from position k on:
\* the column tuples handed to recursive_shared_cycle_combinations
RECURSIVE all_cycle_cubie_counts_from(_, _, _, _, _)
all_cycle_cubie_counts_from(permuted, k, seen_cycle_cubie_counts, n_cycles, pdef) ==
    IF k > Len(permuted) THEN <<>>
    ELSE LET columns == columns_of(permuted[k], n_cycles)
             all_cycle_cubie_counts ==
                 SortedReverse(columns,
                     AsTuple([i \in 1..n_cycles |->
                         AsTuple([j \in 1..n_cycles |->
                             TupleLess(columns[i], columns[j])])]))
         IN  IF \/ \E j \in 1..n_cycles : empty_column(columns[j], pdef)
                \/ all_cycle_cubie_counts \in seen_cycle_cubie_counts
             THEN all_cycle_cubie_counts_from(permuted, k + 1,
                      seen_cycle_cubie_counts, n_cycles, pdef)
             ELSE <<all_cycle_cubie_counts>>
                  \o all_cycle_cubie_counts_from(permuted, k + 1,
                         seen_cycle_cubie_counts \cup {all_cycle_cubie_counts},
                         n_cycles, pdef)

\* lines 227-267: every column tuple searched for one used_cubie_counts
searched_cycle_cubie_counts(used, n_cycles, pdef) ==
    LET all == all_partition_cubie_counts_of(used, n_cycles)
    IN  Flatten(AsTuple([k \in 1..Len(all) |->
            all_cycle_cubie_counts_from(
                product([i \in 1..Len(used) |-> unique_permutations(all[k][i])]),
                1, {}, n_cycles, pdef)]))


\* cache holds the value of highest_order_cycles_from_cubie_counts for
\* every column: the call of line 432 is answered by functools.cache
RECURSIVE recursive_shared_cycle_combinations(_, _)
recursive_shared_cycle_combinations(all_cycle_cubie_counts, cache) ==
    IF Len(all_cycle_cubie_counts) = 0 THEN <<<<>>>>
    ELSE LET shared_cycles == cache[all_cycle_cubie_counts[1]]
             rest_combinations ==
                 recursive_shared_cycle_combinations(
                     Tail(all_cycle_cubie_counts), cache)
             n == Len(rest_combinations)
         IN  AsTuple([k \in 1..(Len(shared_cycles) * n) |->
                 <<shared_cycles[((k - 1) \div n) + 1]>>
                     \o rest_combinations[((k - 1) % n) + 1]])

\* lines 273-281, orbit i (1-based)
share_orbit_count(shared_cycle_combination, i) ==
    Cardinality({c \in 1..Len(shared_cycle_combination) :
                     shared_cycle_combination[c].share[i]})

\* orbit_can_share without the test of cycle.share[i] is False
orbit_can_share_any_cycle(shared_cycle_combination, i) ==
    \E c \in 1..Len(shared_cycle_combination) :
        Contains(shared_cycle_combination[c].partition_objs[i].partition, 1)

orbit_can_share(shared_cycle_combination, i) ==
    \E c \in 1..Len(shared_cycle_combination) :
        /\ shared_cycle_combination[c].share[i] = FALSE
        /\ Contains(shared_cycle_combination[c].partition_objs[i].partition, 1)

\* lines 282-288: the tuple of cycles is skipped
share_check_fails(shared_cycle_combination, n_orbits) ==
    \E i \in 1..n_orbits :
        /\ share_orbit_count(shared_cycle_combination, i) # 0
        /\ ~orbit_can_share(shared_cycle_combination, i)

\* the sort key of lines 293-299
CycleKeyLess(a, b) ==
    \/ a.order < b.order
    \/ a.order = b.order /\ NestedTupleLess(partitions_of(a), partitions_of(b))

\* lines 302-345 without the swap variants: only the sorted tuple is emitted
emitted_positions_sorted_only(descending_order_cycle_combination) ==
    <<1>>

\* lines 302-345 without the test of lines 317-332: every position of the
\* top order is emitted
emitted_positions_all_top_order(descending_order_cycle_combination) ==
    LET d == descending_order_cycle_combination
        n == Len(d)
        differ == {i \in 2..n : d[i].order # d[1].order}
        last == IF differ = {} THEN n
                ELSE (CHOOSE i \in differ : \A m \in differ : i <= m) - 1
    IN  AsTuple([i \in 1..last |-> i])

\* lines 302-345: the positions i (1-based) whose iteration reaches line 347
emitted_positions(descending_order_cycle_combination) ==
    LET d == descending_order_cycle_combination
        n == Len(d)
        differ == {i \in 2..n : d[i].order # d[1].order}
        last == IF differ = {} THEN n
                ELSE (CHOOSE i \in differ : \A m \in differ : i <= m) - 1
    IN  SelectSeq(AsTuple([i \in 1..last |-> i]),
            LAMBDA i : i = 1 \/ partitions_of(d[i - 1]) # partitions_of(d[i]))

\* lines 336-345
start_permuted(descending_order_cycle_combination, i) ==
    [descending_order_cycle_combination EXCEPT
        ![1] = descending_order_cycle_combination[i],
        ![i] = descending_order_cycle_combination[1]]

\* the candidate positions with the first position holding a 1 kept
share_orbit_cycle_candidates_with_first(cycle_combination, k) ==
    LET has_one(j) == Contains(cycle_combination[j].partition_objs[k].partition, 1)
    IN  SelectSeq(AsTuple([j \in 1..Len(cycle_combination) |-> j - 1]),
            LAMBDA j0 : has_one(j0 + 1))

\* lines 347-365: the candidate positions (0-based, as stored) of orbit k
share_orbit_cycle_candidates(cycle_combination, k) ==
    LET has_one(j) == Contains(cycle_combination[j].partition_objs[k].partition, 1)
    IN  SelectSeq(AsTuple([j \in 1..Len(cycle_combination) |-> j - 1]),
            LAMBDA j0 : /\ has_one(j0 + 1)
                        /\ \E m \in 1..j0 : has_one(m))

\* lines 376-402
share_orders_of(cycle_combination, share_orbit_counts) ==
    LET n_orbits == Len(share_orbit_counts)
        choices == product(AsTuple([k \in 1..n_orbits |->
                       combinations(
                           share_orbit_cycle_candidates(cycle_combination, k),
                           share_orbit_counts[k])]))
    IN  AsTuple([c \in 1..Len(choices) |->
            [j \in 1..Len(cycle_combination) |->
                [k \in 1..n_orbits |-> Contains(choices[c][k], j - 1)]]])

\* the comparisons of the sort keys of lines 293-299
CycleKeyLessTable(cycles) ==
    AsTuple([i \in 1..Len(cycles) |->
        AsTuple([j \in 1..Len(cycles) |-> CycleKeyLess(cycles[i], cycles[j])])])

\* the sort of lines 291-301 with the order alone as its key: cycles of
\* equal order stay in the order the product gave them
descending_order_cycle_combination_by_order(shared_cycle_combination) ==
    SortedReverse(shared_cycle_combination,
        AsTuple([i \in 1..Len(shared_cycle_combination) |->
            AsTuple([j \in 1..Len(shared_cycle_combination) |->
                shared_cycle_combination[i].order
                    < shared_cycle_combination[j].order])]))

\* lines 291-301
descending_order_cycle_combination_of(shared_cycle_combination) ==
    SortedReverse(shared_cycle_combination, CycleKeyLessTable(shared_cycle_combination))

\* lines 273-415 for one tuple of cycles: the candidates appended
combination_objs_of(shared_cycle_combination, used, n_orbits) ==
    IF share_check_fails(shared_cycle_combination, n_orbits) THEN <<>>
    ELSE LET d == descending_order_cycle_combination_of(
                      shared_cycle_combination)
             positions == emitted_positions(d)
             share_orbit_counts ==
                 AsTuple([i \in 1..n_orbits |->
                     share_orbit_count(shared_cycle_combination, i)])
         IN  AsTuple([p \in 1..Len(positions) |->
                 LET start_permuted_d == start_permuted(d, positions[p])
                 IN  CycleCombination(
                         used,
                         ProdSeq([j \in 1..Len(start_permuted_d) |->
                                     start_permuted_d[j].order]),
                         share_orders_of(start_permuted_d, share_orbit_counts),
                         start_permuted_d)])

\* lines 227-415: the candidates appended for one used_cubie_counts
candidates_of_used(used, n_cycles, pdef, cache) ==
    LET searched_counts == searched_cycle_cubie_counts(used, n_cycles, pdef)
    IN  Flatten(AsTuple([k \in 1..Len(searched_counts) |->
            LET combos == recursive_shared_cycle_combinations(
                              searched_counts[k], cache)
            IN  Flatten([c \in 1..Len(combos) |->
                    combination_objs_of(combos[c], used, Len(pdef.orbits))])]))

----------------------------------------------------------------------------
(* pareto_efficient_cycle_combinations *)

orders_of(cycle_combination_obj) ==
    AsTuple([k \in 1..Len(cycle_combination_obj.cycle_combination) |->
        cycle_combination_obj.cycle_combination[k].order])

\* dominates_from without the early return of line 191
RECURSIVE dominates_from_no_return(_, _, _, _, _)
dominates_from_no_return(this, other, k, different_orders, same_cycle) ==
    IF k > Min(Len(this.cycle_combination), Len(other.cycle_combination))
    THEN different_orders \/ same_cycle
    ELSE LET this_cycle == this.cycle_combination[k]
             other_cycle == other.cycle_combination[k]
         IN  IF different_orders
             THEN dominates_from_no_return(this, other, k + 1,
                                           different_orders, same_cycle)
             ELSE dominates_from_no_return(this, other, k + 1,
                      this_cycle.order > other_cycle.order,
                      same_cycle /\
                          \A m \in 1..Min(Len(this_cycle.partition_objs),
                                          Len(other_cycle.partition_objs)) :
                              this_cycle.partition_objs[m].partition
                                  = other_cycle.partition_objs[m].partition)

\* the loop of lines 189-207 from position k on
RECURSIVE dominates_from(_, _, _, _, _)
dominates_from(this, other, k, different_orders, same_cycle) ==
    IF k > Min(Len(this.cycle_combination), Len(other.cycle_combination))
    THEN different_orders \/ same_cycle
    ELSE LET this_cycle == this.cycle_combination[k]
             other_cycle == other.cycle_combination[k]
         IN  IF other_cycle.order > this_cycle.order THEN FALSE
             ELSE IF different_orders
             THEN dominates_from(this, other, k + 1, different_orders,
                                 same_cycle)
             ELSE dominates_from(this, other, k + 1,
                      this_cycle.order > other_cycle.order,
                      same_cycle /\
                          \A m \in 1..Min(Len(this_cycle.partition_objs),
                                          Len(other_cycle.partition_objs)) :
                              this_cycle.partition_objs[m].partition
                                  = other_cycle.partition_objs[m].partition)

cycle_combination_dominates(this, other) ==
    dominates_from(this, other, 1, FALSE,
                   this.share_orders = other.share_orders)

\* the sort key of lines 684-687
CombinationKeyLess(a, b) ==
    TupleLess(<<a.order_product>> \o orders_of(a),
              <<b.order_product>> \o orders_of(b))

\* the loop of lines 691-696 with any in place of all
RECURSIVE pareto_points_any(_, _, _)
pareto_points_any(sorted_objs, k, pareto_points) ==
    LET n == Len(sorted_objs)
        mid == (k + n) \div 2
    IN  IF k > n THEN pareto_points
        ELSE IF k = n
        THEN IF \/ pareto_points = <<>>
                \/ \E m \in 1..Len(pareto_points) :
                       ~cycle_combination_dominates(pareto_points[m],
                                                    sorted_objs[k])
             THEN Append(pareto_points, sorted_objs[k])
             ELSE pareto_points
        ELSE LET first == pareto_points_any(SubSeq(sorted_objs, 1, mid), k,
                                            pareto_points)
             IN  CASE Len(first) >= Len(pareto_points) ->
                      pareto_points_any(sorted_objs, mid + 1, first)

\* the loop of lines 691-696 over the positions k..Len(sorted_objs): the
\* positions up to the middle one are gone through before the later ones,
\* and the list only grows (line 696)
RECURSIVE pareto_points_from(_, _, _)
pareto_points_from(sorted_objs, k, pareto_points) ==
    LET n == Len(sorted_objs)
        mid == (k + n) \div 2
    IN  IF k > n THEN pareto_points
        ELSE IF k = n
        THEN IF \A m \in 1..Len(pareto_points) :
                    ~cycle_combination_dominates(pareto_points[m],
                                                 sorted_objs[k])
             THEN Append(pareto_points, sorted_objs[k])
             ELSE pareto_points
        ELSE LET first == pareto_points_from(SubSeq(sorted_objs, 1, mid), k,
                                             pareto_points)
             IN  CASE Len(first) >= Len(pareto_points) ->
                      pareto_points_from(sorted_objs, mid + 1, first)

\* the comparisons of the sort keys of lines 684-687
CombinationKeyLessTable(objs) ==
    AsTuple([i \in 1..Len(objs) |->
        AsTuple([j \in 1..Len(objs) |-> CombinationKeyLess(objs[i], objs[j])])])

\* the sort of lines 683-689 with the elements of equal key reversed
sort_cycle_combination_objs_unstable(objs) ==
    Reverse(Sorted(objs, CombinationKeyLessTable(objs)))

\* the sort key of lines 684-687
CombinationKey(cycle_combination_obj) ==
    <<cycle_combination_obj.order_product>> \o orders_of(cycle_combination_obj)

\* the in-place sort of lines 683-689: descending by key and stable, so the
\* objects of the greatest key come first, in the order they had, then those
\* of the next key, and so on
sort_cycle_combination_objs(objs) ==
    LET n == Len(objs)
        keys == AsTuple([i \in 1..n |-> CombinationKey(objs[i])])
        distinct == Range(keys)
        rank == [key \in distinct |->
                    Cardinality({other \in distinct : TupleLess(key, other)})]
        descending == AsTuple([r \in 1..Cardinality(distinct) |->
                          CHOOSE key \in distinct : rank[key] = r - 1])
        positions == AsTuple([i \in 1..n |-> i])
    IN  Flatten(AsTuple([r \in 1..Len(descending) |->
            LET at == SelectSeq(positions,
                                LAMBDA i : keys[i] = descending[r])
            IN  AsTuple([m \in 1..Len(at) |-> objs[at[m]]])]))

\* the filter without the sort of lines 683-689
pareto_efficient_unsorted(objs) ==
    pareto_points_from(objs, 1, <<>>)

pareto_efficient_cycle_combinations(objs) ==
    pareto_points_from(sort_cycle_combination_objs(objs), 1, <<>>)

----------------------------------------------------------------------------
(* The puzzle definitions the model is run on *)

OrbitNames == <<"corners", "edges", "centers", "wings">>

\* the statuses of the first two orbits; the orbits after them are drawn
\* from two
OrientationStatuses(i) ==
    IF i <= 2
    THEN {CannotOrient, CanOrient(2, "ZERO"), CanOrient(3, "ZERO"),
          CanOrient(2, "NONE")}
    ELSE {CannotOrient, CanOrient(2, "ZERO")}

CubieCounts(n) ==
    {v \in [1..n -> 1..MaxTotalCubies] : SumSeq(v) <= MaxTotalCubies}

\* no constraint, one constraint, two constraints with the same lowest
\* orbit, two overlapping constraints, two disjoint constraints; the names
\* of a constraint are listed last orbit first
ConstraintLists(n) ==
    LET first == EvenParityConstraint(<<OrbitNames[1]>>)
        last == EvenParityConstraint(<<OrbitNames[n]>>)
        all == EvenParityConstraint(AsTuple([i \in 1..n |-> OrbitNames[n + 1 - i]]))
    IN  {<<>>, <<first>>, <<last>>, <<all>>, <<first, all>>, <<all, last>>,
         <<last, first>>}

Puzzles ==
    UNION {{PuzzleOrbitDefinition(
                AsTuple([i \in 1..n |-> Orbit(OrbitNames[i], counts[i], status[i])]),
                constraints) :
                counts \in CubieCounts(n),
                status \in {v \in [1..n -> OrientationStatuses(1)] :
                               \A i \in 1..n : v[i] \in OrientationStatuses(i)},
                constraints \in ConstraintLists(n)}
           : n \in 1..MaxOrbits}

\* puzzle_orbit_definitions.PUZZLE_3x3
PUZZLE_3x3 ==
    PuzzleOrbitDefinition(
        <<Orbit("corners", 8, CanOrient(3, "ZERO")),
          Orbit("edges", 12, CanOrient(2, "ZERO"))>>,
        <<EvenParityConstraint(<<"edges", "corners">>)>>)

----------------------------------------------------------------------------
(* optimal_cycle_combinations as a state machine: one step per iteration   *)
(* of the outermost loop, one for the return, and one for a caller that    *)
(* hands the returned list to pareto_efficient_cycle_combinations again    *)

EmptyCache == [c \in {} |-> <<>>]

\* no call of integer_partitions is followed step by step
NoPartitionCall == [n |-> 0, x |-> 0, k |-> 0, answer |-> {}]

\* next_used with range(1, cubie_count + 2)
RECURSIVE next_used_inclusive(_, _, _)
next_used_inclusive(used, pdef, i) ==
    IF i = 0 THEN <<>>
    ELSE IF used[i] <= pdef.orbits[i].cubie_count
    THEN AsTuple([m \in 1..Len(used) |->
             IF m < i THEN used[m] ELSE IF m = i THEN used[i] + 1 ELSE 1])
    ELSE next_used_inclusive(used, pdef, i - 1)

\* no search is followed step by step
NoSearchCall ==
    [cycle_cubie_counts |-> <<>>, share_index |-> 0, share |-> <<>>,
     stack |-> <<>>, rest_upper_bounds |-> <<>>, branches |-> <<>>,
     partition_obj_path |-> <<>>, highest_order |-> 0, cycles |-> <<>>,
     shared_cycles |-> <<>>]

\* the used_cubie_counts after `used` in itertools.product(range(1, c + 1)...),
\* <<>> when `used` is the last
RECURSIVE next_used(_, _, _)
next_used(used, pdef, i) ==
    IF i = 0 THEN <<>>
    ELSE IF used[i] < pdef.orbits[i].cubie_count
    THEN AsTuple([m \in 1..Len(used) |->
             IF m < i THEN used[m] ELSE IF m = i THEN used[i] + 1 ELSE 1])
    ELSE next_used(used, pdef, i - 1)

\* every column of the tuples searched for one used_cubie_counts
searched_columns(used, n_cycles, pdef) ==
    UNION {Range(t) : t \in Range(searched_cycle_cubie_counts(used, n_cycles,
                                                               pdef))}

\* the keys reduced_integer_partitions is called with by the searches of
\* the columns not yet in the cache of the highest-order search
reduced_keys(columns, pdef) ==
    UNION {{<<c[i], i, share[i]>> : i \in 1..Len(c),
                                    share \in Range(share_vectors(c, pdef))}
           : c \in columns}

\* reduced_integer_partitions' cache after the searches of `columns`
reduced_cache_after(columns, pdef, helper, rcache) ==
    [key \in (DOMAIN rcache) \cup reduced_keys(columns, pdef) |->
        cached_reduced_integer_partitions(rcache, key[1], key[2], key[3],
                                          pdef, helper)]

\* the cache of highest_order_cycles_from_cubie_counts after the searches
\* of `columns`
highest_order_cache_after(columns, pdef, helper, rcache, cache) ==
    [c \in (DOMAIN cache) \cup columns |->
        IF c \in DOMAIN cache THEN cache[c]
        ELSE highest_order_cycles_from_cubie_counts(c, pdef, helper, rcache)]

\* cache_clear holds its default (line 212) until line 416 reads the
\* argument of the call
InitWith(pdefs, cycle_counts) ==
    /\ puzzle_orbit_definition \in pdefs
    /\ num_cycles \in cycle_counts
    /\ cache_clear = TRUE
    /\ pc = "enumerate"
    /\ used_cubie_counts = AsTuple([i \in 1..Len(puzzle_orbit_definition.orbits) |-> 1])
    /\ cycle_combination_objs = <<>>
    /\ reduced_cache = EmptyCache
    /\ highest_order_cache = EmptyCache
    /\ other_caches = EmptyCache
    /\ invocations = 1
    /\ partition_call = NoPartitionCall
    /\ previous_results = EmptyCache
    /\ result = <<>>
    /\ refiltered = <<>>
    /\ search_call = NoSearchCall

Init == InitWith(Puzzles, 1..MaxCycles)

\* one iteration of the loop of line 223
Enumerate ==
    /\ pc = "enumerate"
    /\ LET pdef == puzzle_orbit_definition
           helper == from_puzzle_orbit_definition(pdef)
           columns == searched_columns(used_cubie_counts, num_cycles, pdef)
                          \ DOMAIN highest_order_cache
           next == next_used(used_cubie_counts, pdef, Len(used_cubie_counts))
       IN  /\ reduced_cache' =
                  reduced_cache_after(columns, pdef, helper, reduced_cache)
           /\ highest_order_cache' =
                  highest_order_cache_after(columns, pdef, helper,
                                            reduced_cache',
                                            highest_order_cache)
           /\ cycle_combination_objs' =
                  cycle_combination_objs \o
                  candidates_of_used(used_cubie_counts, num_cycles, pdef,
                                     highest_order_cache')
           /\ IF next = <<>>
              THEN pc' = "return" /\ UNCHANGED used_cubie_counts
              ELSE pc' = "enumerate" /\ used_cubie_counts' = next
    /\ UNCHANGED <<puzzle_orbit_definition, num_cycles, cache_clear,
                   other_caches, invocations, partition_call,
                   previous_results, result, refiltered, search_call>>

\* the caller keeps the list of the first call on (pdef, n_cycles)
recorded(results, pdef, n_cycles, returned) ==
    [key \in (DOMAIN results) \cup {<<pdef, n_cycles>>} |->
        IF key \in DOMAIN results THEN results[key] ELSE returned]

\* lines 416-420; the filter sorts its argument in place
Return ==
    /\ pc = "return"
    /\ cache_clear' \in BOOLEAN
    /\ reduced_cache' = IF cache_clear' THEN EmptyCache ELSE reduced_cache
    /\ highest_order_cache' =
           IF cache_clear' THEN EmptyCache ELSE highest_order_cache
    /\ other_caches' = IF cache_clear' THEN EmptyCache ELSE other_caches
    /\ cycle_combination_objs' =
           sort_cycle_combination_objs(cycle_combination_objs)
    /\ result' = pareto_efficient_cycle_combinations(cycle_combination_objs)
    /\ previous_results' =
           recorded(previous_results, puzzle_orbit_definition, num_cycles,
                    result')
    /\ pc' = "returned"
    /\ UNCHANGED <<puzzle_orbit_definition, num_cycles,
                   used_cubie_counts, invocations, partition_call,
                   refiltered, search_call>>

\* a caller applies pareto_efficient_cycle_combinations to the returned list
Refilter ==
    /\ pc = "returned"
    /\ result' = sort_cycle_combination_objs(result)
    /\ refiltered' = pareto_efficient_cycle_combinations(result)
    /\ pc' = "refiltered"
    /\ UNCHANGED <<puzzle_orbit_definition, num_cycles, cache_clear,
                   used_cubie_counts, cycle_combination_objs, reduced_cache,
                   highest_order_cache, other_caches, invocations,
                   partition_call, previous_results, search_call>>

Next == Enumerate \/ Return \/ Refilter

Spec == Init /\ [][Next]_vars

\* the standard 3x3 with one cycle
Init3x3 == InitWith({PUZZLE_3x3}, {1})

Spec3x3 == Init3x3 /\ [][Next]_vars

\* lines 223-415 from `used` on: the candidates appended by a call that
\* reached `used` with the caches rcache and cache
RECURSIVE candidates_from(_, _, _, _, _)
candidates_from(used, n_cycles, pdef, rcache, cache) ==
    LET helper == from_puzzle_orbit_definition(pdef)
        columns == searched_columns(used, n_cycles, pdef) \ DOMAIN cache
        reduced == reduced_cache_after(columns, pdef, helper, rcache)
        searched == highest_order_cache_after(columns, pdef, helper, reduced,
                                              cache)
        next == next_used(used, pdef, Len(used))
    IN  candidates_of_used(used, n_cycles, pdef, searched)
        \o (IF next = <<>> THEN <<>>
            ELSE candidates_from(next, n_cycles, pdef, reduced, searched))

\* optimal_cycle_combinations (lines 212-420) called on empty caches
optimal_cycle_combinations(pdef, n_cycles) ==
    pareto_efficient_cycle_combinations(
        candidates_from(AsTuple([i \in 1..Len(pdef.orbits) |-> 1]), n_cycles,
                        pdef, EmptyCache, EmptyCache))

\* the cache keys hold the puzzle definition and the helper built from it
\* (lines 424-427, 448-451, 574-581): the entries of both caches that a call
\* on pdef finds, when `current` is the definition of the entries in rcache
\* and cache
caches_of_any_definition(pdef, current, rcache, cache, others) ==
    <<rcache, cache>>

caches_of(pdef, current, rcache, cache, others) ==
    IF pdef = current THEN <<rcache, cache>>
    ELSE IF pdef \in DOMAIN others THEN others[pdef]
    ELSE <<EmptyCache, EmptyCache>>

\* two orbits of 2 and 3 pieces: corners that can or cannot orient, with
\* and without a parity constraint over both orbits
InvocationPuzzles ==
    {PuzzleOrbitDefinition(
         <<Orbit("corners", 2, status), Orbit("edges", 3, CanOrient(2, "ZERO"))>>,
         constraints) :
         status \in {CannotOrient, CanOrient(3, "ZERO")},
         constraints \in {<<>>, <<EvenParityConstraint(<<"edges", "corners">>)>>}}

\* the process calls optimal_cycle_combinations again (line 212), on the
\* same or on another puzzle definition, with the caches as the calls
\* before left them; a definition no entry is cached for has no key
Invoke ==
    /\ pc = "returned"
    /\ invocations < MaxInvocations
    /\ \E pdef \in InvocationPuzzles, n_cycles \in 1..MaxCycles :
           LET found == caches_of(pdef, puzzle_orbit_definition, reduced_cache,
                                  highest_order_cache, other_caches)
               left == (DOMAIN other_caches \cup {puzzle_orbit_definition})
                           \ {pdef}
               kept == {d \in left :
                           caches_of(d, puzzle_orbit_definition, reduced_cache,
                                     highest_order_cache, other_caches)
                               # <<EmptyCache, EmptyCache>>}
           IN  /\ puzzle_orbit_definition' = pdef
               /\ num_cycles' = n_cycles
               /\ reduced_cache' = found[1]
               /\ highest_order_cache' = found[2]
               /\ other_caches' =
                      [d \in kept |->
                          caches_of(d, puzzle_orbit_definition, reduced_cache,
                                    highest_order_cache, other_caches)]
               /\ used_cubie_counts' =
                      AsTuple([i \in 1..Len(pdef.orbits) |-> 1])
    /\ invocations' = invocations + 1
    /\ cache_clear' = TRUE
    /\ pc' = "enumerate"
    /\ cycle_combination_objs' = <<>>
    /\ result' = <<>>
    /\ UNCHANGED <<partition_call, previous_results, refiltered, search_call>>

InitInvocations == InitWith(InvocationPuzzles, 1..MaxCycles)

NextInvocations == Enumerate \/ Return \/ Invoke

SpecInvocations == InitInvocations /\ [][NextInvocations]_vars

\* definitions that the types of common_types.py admit but the text of the
\* specification rules out: orbits of the same name, orbits without pieces,
\* constraints that name "wings", which no orbit here is called
UncheckedPuzzles ==
    UNION {{PuzzleOrbitDefinition(
                AsTuple([i \in 1..n |-> Orbit(names[i], counts[i], status[i])]),
                constraints) :
                names \in [1..n -> {"corners", "edges"}],
                counts \in [1..n -> -1..2],
                status \in [1..n -> {CannotOrient, CanOrient(2, "ZERO")}],
                constraints \in
                    {<<>>,
                     <<EvenParityConstraint(<<"corners">>)>>,
                     <<EvenParityConstraint(<<"corners", "wings">>)>>,
                     <<EvenParityConstraint(<<"edges", "corners">>),
                       EvenParityConstraint(<<"wings">>)>>}}
           : n \in 1..MaxOrbits}

\* the call before line 213
InitUnchecked ==
    /\ puzzle_orbit_definition \in UncheckedPuzzles
    /\ num_cycles \in 1..MaxCycles
    /\ cache_clear = TRUE
    /\ pc = "call"
    /\ used_cubie_counts = AsTuple([i \in 1..Len(puzzle_orbit_definition.orbits) |-> 1])
    /\ cycle_combination_objs = <<>>
    /\ reduced_cache = EmptyCache
    /\ highest_order_cache = EmptyCache
    /\ other_caches = EmptyCache
    /\ invocations = 1
    /\ partition_call = NoPartitionCall
    /\ previous_results = EmptyCache
    /\ result = <<>>
    /\ refiltered = <<>>
    /\ search_call = NoSearchCall

\* lines 213-226: the helper is built, unless line 94 raises ValueError, and
\* the outermost loop is entered, unless the range of an orbit is empty
BuildHelper ==
    /\ pc = "call"
    /\ pc' = IF invalid_orbit_names(puzzle_orbit_definition) THEN "error"
             ELSE IF \E i \in 1..Len(puzzle_orbit_definition.orbits) :
                         puzzle_orbit_definition.orbits[i].cubie_count < 1
             THEN "return"
             ELSE "enumerate"
    /\ UNCHANGED <<puzzle_orbit_definition, num_cycles, cache_clear,
                   used_cubie_counts, cycle_combination_objs, reduced_cache,
                   highest_order_cache, other_caches, invocations,
                   partition_call, previous_results, result, refiltered,
                   search_call>>

NextUnchecked == BuildHelper \/ Enumerate \/ Return

SpecUnchecked == InitUnchecked /\ [][NextUnchecked]_vars

\* integer_partitions(n) step by step.  The calls integer_partitions(n - x)
\* of line 150 are answered by functools.cache.
InitPartitions ==
    /\ pc = "integer_partitions"
    /\ \E n \in 0..MaxPartitionN :
           partition_call = [n |-> n, x |-> 1, k |-> 1,
                             answer |-> IF n = 0 THEN {<<>>} ELSE {<<n>>}]
    /\ puzzle_orbit_definition = PUZZLE_3x3
    /\ num_cycles = 1
    /\ cache_clear = TRUE
    /\ used_cubie_counts = <<>>
    /\ cycle_combination_objs = <<>>
    /\ reduced_cache = EmptyCache
    /\ highest_order_cache = EmptyCache
    /\ other_caches = EmptyCache
    /\ invocations = 1
    /\ previous_results = EmptyCache
    /\ result = <<>>
    /\ refiltered = <<>>
    /\ search_call = NoSearchCall

\* line 151 without sorted()
added_partition_unsorted(x, y) ==
    <<x>> \o y

\* line 151: the tuple added to answer
added_partition(x, y) ==
    SortedInts(<<x>> \o y)

\* one iteration of the inner loop (lines 150-151)
AddPartition ==
    /\ pc = "integer_partitions"
    /\ partition_call.n # 0
    /\ partition_call.x < partition_call.n
    /\ LET ys == iter_integer_partitions(partition_call.n - partition_call.x)
           last == partition_call.k = Len(ys)
       IN  partition_call' =
               [n |-> partition_call.n,
                x |-> IF last THEN partition_call.x + 1 ELSE partition_call.x,
                k |-> IF last THEN 1 ELSE partition_call.k + 1,
                answer |-> partition_call.answer
                           \cup {added_partition(partition_call.x,
                                                 ys[partition_call.k])}]
    /\ UNCHANGED <<puzzle_orbit_definition, num_cycles, cache_clear,
                   pc, used_cubie_counts, cycle_combination_objs,
                   reduced_cache, highest_order_cache, other_caches,
                   invocations, previous_results, result,
                   refiltered, search_call>>

\* lines 146-147 and 152
ReturnPartitions ==
    /\ pc = "integer_partitions"
    /\ partition_call.n = 0 \/ partition_call.x >= partition_call.n
    /\ pc' = "partitions_returned"
    /\ UNCHANGED <<puzzle_orbit_definition, num_cycles, cache_clear,
                   used_cubie_counts, cycle_combination_objs, reduced_cache,
                   highest_order_cache, other_caches, invocations,
                   partition_call, previous_results, result, refiltered,
                   search_call>>

NextPartitions == AddPartition \/ ReturnPartitions

SpecPartitions == InitPartitions /\ [][NextPartitions]_vars

\* optimal_cycle_combinations(PUZZLE_3x3, 2) (test_phase1.py, lines 29-46)
\* the budget vectors of the searches followed step by step: the cubie
\* counts of the definition, with the budget of any orbits set to 0
SearchBudgets(pdef) ==
    LET n == Len(pdef.orbits)
        all == {AsTuple([i \in 1..n |->
                    IF i \in zeroed THEN 0 ELSE pdef.orbits[i].cubie_count]) :
                zeroed \in SUBSET (1..n)}
    IN  {c \in all : ~empty_column(c, pdef)}

\* the branch of a frame: the partitions chosen by the frame and by the
\* frames it descends from, and the constraints evaluated on the way
Branch(path, evaluated) == [path |-> path, evaluated |-> evaluated]

\* highest_order_cycles_from_cubie_counts is called on one budget vector
\* with empty caches and stands at line 484 for its first share vector:
\* highest_order is 1 and shared_cycles is empty (lines 452-453), the
\* lists of lines 495-506 are not yet bound
InitSearch ==
    /\ puzzle_orbit_definition \in Puzzles
    /\ pc = "enter_search"
    /\ \E c \in SearchBudgets(puzzle_orbit_definition) :
           search_call =
               [NoSearchCall EXCEPT
                   !.cycle_cubie_counts = c,
                   !.share_index = 1,
                   !.share = share_vectors(c, puzzle_orbit_definition)[1],
                   !.highest_order = 1]
    /\ num_cycles = 1
    /\ cache_clear = TRUE
    /\ used_cubie_counts = <<>>
    /\ cycle_combination_objs = <<>>
    /\ reduced_cache = EmptyCache
    /\ highest_order_cache = EmptyCache
    /\ other_caches = EmptyCache
    /\ invocations = 1
    /\ partition_call = NoPartitionCall
    /\ previous_results = EmptyCache
    /\ result = <<>>
    /\ refiltered = <<>>

\* the keys reduced_integer_partitions is called with for one share vector
\* (lines 484-493)
requested_keys(cycle_cubie_counts, share) ==
    {<<cycle_cubie_counts[i], i, share[i]>> : i \in 1..Len(cycle_cubie_counts)}

\* lines 484-493: the tables of the share vector are requested from
\* reduced_integer_partitions, whose cache keeps those of the share
\* vectors tried before
RequestTables ==
    /\ pc = "enter_search"
    /\ reduced_cache' =
           [key \in (DOMAIN reduced_cache)
                        \cup requested_keys(search_call.cycle_cubie_counts,
                                            search_call.share) |->
               cached_reduced_integer_partitions(
                   reduced_cache, key[1], key[2], key[3],
                   puzzle_orbit_definition,
                   from_puzzle_orbit_definition(puzzle_orbit_definition))]
    /\ pc' = "bounds"
    /\ UNCHANGED <<puzzle_orbit_definition, num_cycles, cache_clear,
                   used_cubie_counts, cycle_combination_objs,
                   highest_order_cache, other_caches, invocations,
                   partition_call, previous_results, result, refiltered,
                   search_call>>

\* lines 495-506: the first entries of the tables are read for
\* rest_upper_bounds, cycles and the path array are made anew and the
\* first frame is pushed; highest_order is what the share vectors tried
\* before left
EnterSearch ==
    /\ pc = "bounds"
    /\ LET pdef == puzzle_orbit_definition
           helper == from_puzzle_orbit_definition(pdef)
           n == Len(pdef.orbits)
           none == AsTuple([m \in 1..n |-> NonePartitionObj])
           rest_upper_bounds ==
               rest_upper_bounds_of(
                   all_reduced_integer_partitions_of(
                       search_call.cycle_cubie_counts, search_call.share, pdef,
                       helper, reduced_cache))
       IN  search_call' =
               [search_call EXCEPT
                   !.rest_upper_bounds = rest_upper_bounds,
                   !.stack = <<Frame(n - 1, 1, NonePartitionObj, 0)>>,
                   !.branches = <<Branch(none, <<>>)>>,
                   !.partition_obj_path = none,
                   !.cycles = <<>>]
    /\ pc' = "search"
    /\ UNCHANGED <<puzzle_orbit_definition, num_cycles, cache_clear,
                   used_cubie_counts, cycle_combination_objs, reduced_cache,
                   highest_order_cache, other_caches, invocations,
                   partition_call, previous_results, result, refiltered>>

\* the frame taken first in place of the last
stack_pop_first(stack) == 1

\* stack.pop() of line 509: the position of the frame taken
stack_pop(stack) == Len(stack)

\* one iteration of the while loop of lines 507-569
SearchStep ==
    /\ pc = "search"
    /\ search_call.stack # <<>>
    /\ LET pdef == puzzle_orbit_definition
           helper == from_puzzle_orbit_definition(pdef)
           tables == all_reduced_integer_partitions_of(
                         search_call.cycle_cubie_counts, search_call.share,
                         pdef, helper, reduced_cache)
           rest_upper_bounds == search_call.rest_upper_bounds
           at == stack_pop(search_call.stack)
           without(s) == SubSeq(s, 1, at - 1) \o SubSeq(s, at + 1, Len(s))
           frame == search_call.stack[at]
           branch == search_call.branches[at]
           i == frame.i
           path == IF frame.partition_obj # NonePartitionObj
                   THEN [search_call.partition_obj_path
                            EXCEPT ![i + 2] = frame.partition_obj]
                   ELSE search_call.partition_obj_path
           next_index == parity_gate(i, frame.partition_obj, path,
                                     frame.next_even_parity_constraint_index,
                                     helper)
           pushed == pushed_frames(i, frame.running_order, next_index,
                                   tables[i + 1], rest_upper_bounds[i + 1],
                                   search_call.highest_order)
           evaluated ==
               branch.evaluated \o
               AsTuple([m \in 1..(next_index
                                      - frame.next_even_parity_constraint_index) |->
                   frame.next_even_parity_constraint_index + m])
       IN  search_call' =
               IF next_index = -1
               THEN [search_call EXCEPT
                        !.stack = without(search_call.stack),
                        !.branches = without(search_call.branches),
                        !.partition_obj_path = path]
               ELSE IF i # -1
               THEN [search_call EXCEPT
                        !.stack = without(search_call.stack) \o pushed,
                        !.branches =
                            without(search_call.branches) \o
                            AsTuple([m \in 1..Len(pushed) |->
                                Branch([branch.path EXCEPT
                                           ![i + 1] = pushed[m].partition_obj],
                                       evaluated)]),
                        !.partition_obj_path = path]
               ELSE IF frame.running_order < search_call.highest_order
               THEN [search_call EXCEPT
                        !.stack = without(search_call.stack),
                        !.branches = without(search_call.branches),
                        !.partition_obj_path = path]
               ELSE [search_call EXCEPT
                        !.stack = without(search_call.stack),
                        !.branches = without(search_call.branches),
                        !.partition_obj_path = path,
                        !.highest_order = frame.running_order,
                        !.cycles =
                            Append(IF frame.running_order
                                          > search_call.highest_order
                                   THEN <<>> ELSE search_call.cycles,
                                   Cycle(frame.running_order,
                                         search_call.share, path))]
    /\ UNCHANGED <<puzzle_orbit_definition, num_cycles, cache_clear,
                   pc, used_cubie_counts, cycle_combination_objs,
                   reduced_cache, highest_order_cache, other_caches,
                   invocations, partition_call, previous_results, result,
                   refiltered>>

\* line 507 with the stack empty: the cycles of the share vector are
\* appended to shared_cycles (line 570) and the loop of line 469 builds
\* the next share vector (lines 473-483) or ends
SearchDone ==
    /\ pc = "search"
    /\ search_call.stack = <<>>
    /\ LET shares == share_vectors(search_call.cycle_cubie_counts,
                                   puzzle_orbit_definition)
           shared_cycles == search_call.shared_cycles \o search_call.cycles
       IN  IF search_call.share_index < Len(shares)
           THEN /\ search_call' =
                       [search_call EXCEPT
                           !.shared_cycles = shared_cycles,
                           !.share_index = search_call.share_index + 1,
                           !.share = shares[search_call.share_index + 1]]
                /\ pc' = "enter_search"
           ELSE /\ search_call' =
                       [search_call EXCEPT !.shared_cycles = shared_cycles]
                /\ pc' = "searched"
    /\ UNCHANGED <<puzzle_orbit_definition, num_cycles, cache_clear,
                   used_cubie_counts, cycle_combination_objs, reduced_cache,
                   highest_order_cache, other_caches, invocations,
                   partition_call, previous_results, result, refiltered>>

\* line 571: shared_cycles is returned and functools.cache stores it
\* under the budget vector
ReturnSearch ==
    /\ pc = "searched"
    /\ highest_order_cache' =
           [c \in (DOMAIN highest_order_cache)
                      \cup {search_call.cycle_cubie_counts} |->
               IF c \in DOMAIN highest_order_cache THEN highest_order_cache[c]
               ELSE search_call.shared_cycles]
    /\ pc' = "search_returned"
    /\ UNCHANGED <<puzzle_orbit_definition, num_cycles, cache_clear,
                   used_cubie_counts, cycle_combination_objs, reduced_cache,
                   other_caches, invocations, partition_call,
                   previous_results, result, refiltered, search_call>>

NextSearch ==
    \/ RequestTables
    \/ EnterSearch
    \/ SearchStep
    \/ SearchDone
    \/ ReturnSearch

SpecSearch == InitSearch /\ [][NextSearch]_vars

Init3x3TwoCycles == InitWith({PUZZLE_3x3}, {2})

Spec3x3TwoCycles == Init3x3TwoCycles /\ [][Next]_vars

\* calls with one cycle more than the other specifications enumerate: an
\* orbit can have two candidate positions for a share
InitMoreCycles == InitWith(Puzzles, {MaxCycles + 1})

SpecMoreCycles == InitMoreCycles /\ [][Next]_vars

\* cycle_combination_objs_stats (lines 700-711)
cycle_combination_objs_stats(objs) ==
    LET keys == {orders_of(objs[k]) : k \in 1..Len(objs)}
    IN  [key \in keys |->
            SumSeq(AsTuple([k \in 1..Len(objs) |->
                       IF orders_of(objs[k]) = key
                       THEN Len(objs[k].share_orders) ELSE 0]))]

----------------------------------------------------------------------------
(* Properties *)

Returned == pc \in {"returned", "refiltered"}

cycles_of(objs) ==
    UNION {Range(objs[k].cycle_combination) : k \in 1..Len(objs)}

orbit_index_set(pdef, even_parity_constraint) ==
    {i \in 1..Len(pdef.orbits) :
        pdef.orbits[i].name \in Range(even_parity_constraint.orbit_names)}

\* the sum over the constraint's orbits of sum(partition) - len(partition)
RECURSIVE signature_sum(_, _)
signature_sum(partitions, orbit_indices) ==
    IF orbit_indices = {} THEN 0
    ELSE LET i == CHOOSE i \in orbit_indices : TRUE
         IN  (SumSeq(partitions[i]) - Len(partitions[i]))
             + signature_sum(partitions, orbit_indices \ {i})

satisfies_even_parity(partitions, pdef) ==
    \A c \in 1..Len(pdef.even_parity_constraints) :
        signature_sum(partitions,
            orbit_index_set(pdef, pdef.even_parity_constraints[c])) % 2 = 0

\* C1: every cycle of every returned combination satisfies every
\* even-parity constraint of the puzzle definition: the signature sum over
\* the constraint's orbits is even.
C1_EvenParity ==
    Returned =>
        \A cycle \in cycles_of(result) :
            satisfies_even_parity(partitions_of(cycle),
                                  puzzle_orbit_definition)

\* a returned cycle with odd partitions in both orbits of a constraint
C1_Witness ==
    /\ Returned
    /\ \E c \in 1..Len(puzzle_orbit_definition.even_parity_constraints) :
           Len(puzzle_orbit_definition.even_parity_constraints[c].orbit_names) = 2
    /\ \E cycle \in cycles_of(result) :
           \A i \in 1..2 : sign(cycle.partition_objs[i].partition) % 2 = 1

\* the set of sequences with one element of each set of `sets`
RECURSIVE selections(_)
selections(sets) ==
    IF sets = <<>> THEN {<<>>}
    ELSE {<<x>> \o rest : x \in Head(sets), rest \in selections(Tail(sets))}

\* the selections of one entry per orbit from the reduced tables of
\* (cycle_cubie_counts, share) that pass every parity constraint
feasible_selections(cycle_cubie_counts, share, pdef, rcache) ==
    LET tables == all_reduced_integer_partitions_of(
                      cycle_cubie_counts, share, pdef,
                      from_puzzle_orbit_definition(pdef), rcache)
    IN  {sel \in selections(AsTuple([i \in 1..Len(tables) |-> Range(tables[i])])) :
            satisfies_even_parity(AsTuple([i \in 1..Len(sel) |-> sel[i].partition]),
                                  pdef)}

selection_order(sel) == lcm(AsTuple([i \in 1..Len(sel) |-> sel[i].order]))

maximum_selections(cycle_cubie_counts, share, pdef, rcache) ==
    LET feasible == feasible_selections(cycle_cubie_counts, share, pdef, rcache)
    IN  {sel \in feasible :
            \A other \in feasible :
                selection_order(other) <= selection_order(sel)}

\* C2: for every budget vector searched and every share vector of it, the
\* cycles the search returns under that share vector are exactly the
\* parity-feasible selections from the reduced tables whose LCM of orders
\* is the maximum over the feasible selections of that share vector.
C2_MaximumPerShare ==
    \A c \in DOMAIN highest_order_cache :
        \A share \in Range(share_vectors(c, puzzle_orbit_definition)) :
            {cycle.partition_objs :
                cycle \in {x \in Range(highest_order_cache[c]) :
                              x.share = share}}
            = maximum_selections(c, share, puzzle_orbit_definition,
                                 reduced_cache)

\* C3: in the returned list no element is dominated, in the sense of
\* cycle_combination_dominates, by a different element of the list, be it
\* earlier or later.
C3_NoneDominated ==
    Returned =>
        \A a \in 1..Len(result) : \A b \in 1..Len(result) :
            a # b => ~cycle_combination_dominates(result[a], result[b])

\* the filter dropped a strictly dominated candidate and a candidate of
\* the class of a kept one, and kept several
C3_Witness ==
    /\ Returned
    /\ Len(result) >= 2
    /\ \E k \in 1..Len(cycle_combination_objs) : \E m \in 1..Len(result) :
           /\ cycle_combination_objs[k] \notin Range(result)
           /\ orders_of(cycle_combination_objs[k]) # orders_of(result[m])
           /\ cycle_combination_dominates(result[m], cycle_combination_objs[k])
    /\ \E k \in 1..Len(cycle_combination_objs) : \E m \in 1..Len(result) :
           /\ cycle_combination_objs[k] \notin Range(result)
           /\ orders_of(cycle_combination_objs[k]) = orders_of(result[m])
           /\ cycle_combination_dominates(result[m], cycle_combination_objs[k])

is_descending(cycle_combination) ==
    \A j \in 1..(Len(cycle_combination) - 1) :
        ~CycleKeyLess(cycle_combination[j], cycle_combination[j + 1])

orders_descending(cycle_combination) ==
    \A j \in 1..(Len(cycle_combination) - 1) :
        cycle_combination[j].order >= cycle_combination[j + 1].order

\* C5: the order of every cycle the search produced is the least common
\* multiple of the orders of its per-orbit partitions, and the
\* order_product of every combination is the product of its cycles' orders.
C5_OrderIsLcm ==
    /\ \A c \in DOMAIN highest_order_cache :
           \A cycle \in Range(highest_order_cache[c]) :
               cycle.order = selection_order(cycle.partition_objs)
    /\ \A k \in 1..Len(cycle_combination_objs) :
           /\ \A cycle \in Range(cycle_combination_objs[k].cycle_combination) :
                  cycle.order = selection_order(cycle.partition_objs)
           /\ cycle_combination_objs[k].order_product
                  = ProdSeq(orders_of(cycle_combination_objs[k]))

\* a combination of two cycles, one with partitions in two orbits whose
\* orders share a factor, and one with an empty partition
C5_Witness ==
    \E k \in 1..Len(cycle_combination_objs) :
        LET cc == cycle_combination_objs[k].cycle_combination
        IN  /\ Len(cc) >= 2
            /\ cycle_combination_objs[k].order_product > cc[1].order
            /\ \E cycle \in Range(cc) :
                   /\ Len(cycle.partition_objs) >= 2
                   /\ gcd(cycle.partition_objs[1].order,
                          cycle.partition_objs[2].order) > 1
            /\ \E cycle \in Range(cc) :
                   \E i \in 1..Len(cycle.partition_objs) :
                       cycle.partition_objs[i].partition = <<>>

\* the parts of the cycle in orbit i, the leading part left out when shared
parts_used(cycle, i) ==
    Len(cycle.partition_objs[i].partition) - (IF cycle.share[i] THEN 1 ELSE 0)

budget_respected(cycle_combination_obj, pdef) ==
    \A i \in 1..Len(pdef.orbits) :
        SumSeq(AsTuple([j \in 1..Len(cycle_combination_obj.cycle_combination) |->
                   parts_used(cycle_combination_obj.cycle_combination[j], i)]))
            <= pdef.orbits[i].cubie_count

\* C6: for every combination returned and every orbit, the number of parts
\* of the cycles' partitions in the orbit, not counting the leading part of
\* a cycle that shares in the orbit, is at most the orbit's cubie_count.
C6_BudgetRespected ==
    Returned =>
        \A k \in 1..Len(result) :
            budget_respected(result[k], puzzle_orbit_definition)

\* a returned combination with a sharing cycle that uses every piece of an
\* orbit
C6_Witness ==
    /\ Returned
    /\ \E k \in 1..Len(result) :
           \E i \in 1..Len(puzzle_orbit_definition.orbits) :
               /\ \E cycle \in Range(result[k].cycle_combination) :
                      cycle.share[i]
               /\ SumSeq(AsTuple([j \in 1..Len(result[k].cycle_combination) |->
                             parts_used(result[k].cycle_combination[j], i)]))
                      = puzzle_orbit_definition.orbits[i].cubie_count

dominates_as_specified(A, B) ==
    /\ A.order_product >= B.order_product
    /\ \A k \in 1..Len(A.cycle_combination) :
           A.cycle_combination[k].order >= B.cycle_combination[k].order
    /\ \/ \E k \in 1..Len(A.cycle_combination) :
              A.cycle_combination[k].order > B.cycle_combination[k].order
       \/ /\ \A k \in 1..Len(A.cycle_combination) :
                 partitions_of(A.cycle_combination[k])
                     = partitions_of(B.cycle_combination[k])
          /\ A.share_orders = B.share_orders

\* C7: for two candidates A and B, cycle_combination_dominates(A, B) is
\* true exactly when A.order_product >= B.order_product, every cycle order
\* of A is >= that of B, and either some cycle order of A is greater or all
\* partitions are equal and the share_orders are equal.
C7_DominatesIff ==
    pc = "return" =>
        \A a \in 1..Len(cycle_combination_objs) :
            \A b \in 1..Len(cycle_combination_objs) :
                cycle_combination_dominates(cycle_combination_objs[a],
                                            cycle_combination_objs[b])
                <=> dominates_as_specified(cycle_combination_objs[a],
                                           cycle_combination_objs[b])

\* the candidates hold a pair with a greater order at a later position
\* only, a pair of different candidates of one class, a pair with equal
\* orders and partitions but different share_orders, and a pair where a
\* later order is smaller
C7_Witness ==
    /\ pc = "return"
    /\ \E a, b \in Range(cycle_combination_objs) :
           /\ Len(a.cycle_combination) >= 2
           /\ a.cycle_combination[1].order = b.cycle_combination[1].order
           /\ cycle_combination_dominates(a, b)
           /\ orders_of(a) # orders_of(b)
    /\ \E a, b \in Range(cycle_combination_objs) :
           /\ a # b
           /\ orders_of(a) = orders_of(b)
           /\ cycle_combination_dominates(a, b)
    /\ \E a, b \in Range(cycle_combination_objs) :
           /\ \A k \in 1..Len(a.cycle_combination) :
                  partitions_of(a.cycle_combination[k])
                      = partitions_of(b.cycle_combination[k])
           /\ a.share_orders # b.share_orders
    /\ \E a, b \in Range(cycle_combination_objs) :
           /\ Len(a.cycle_combination) >= 2
           /\ a.cycle_combination[1].order > b.cycle_combination[1].order
           /\ a.cycle_combination[2].order < b.cycle_combination[2].order

\* C8: applying pareto_efficient_cycle_combinations to a list it returned
\* gives back the same list, the same elements in the same order.
C8_Idempotent ==
    [][pc = "returned" /\ pc' = "refiltered" => refiltered' = result]_vars

\* the list filtered again has elements with equal sort keys and was
\* itself the outcome of dropping candidates
C8_Witness ==
    /\ pc = "refiltered"
    /\ Len(refiltered) >= 2
    /\ Len(refiltered) < Len(cycle_combination_objs)
    /\ \E k \in 1..(Len(refiltered) - 1) :
           orders_of(refiltered[k]) = orders_of(refiltered[k + 1])

\* C9: the returned list is in non-increasing order of the key
\* (order_product, cycle orders...) and every element of it is one of the
\* candidates the enumerator built.
C9_SortedSelection ==
    Returned =>
        /\ \A k \in 1..(Len(result) - 1) :
               ~CombinationKeyLess(result[k], result[k + 1])
        /\ Range(result) \subseteq Range(cycle_combination_objs)

\* the returned list has elements of different keys
C9_Witness ==
    /\ Returned
    /\ \E k \in 1..(Len(result) - 1) :
           CombinationKeyLess(result[k + 1], result[k])
    /\ Len(result) < Len(cycle_combination_objs)

\* C10: for the standard 3x3 and one cycle, every returned combination has
\* the cycle order 1260 and the share patterns of the returned list number
\* 2: the statistics are {(1260,): 2}.
C10_Stats3x3 ==
    Returned =>
        /\ \A k \in 1..Len(result) : orders_of(result[k]) = <<1260>>
        /\ cycle_combination_objs_stats(result) = (<<1260>> :> 2)

\* the run of the 3x3 returned, after candidates of lower order were built
C10_Witness ==
    /\ Returned
    /\ puzzle_orbit_definition = PUZZLE_3x3
    /\ num_cycles = 1
    /\ Len(result) = 2
    /\ \E k \in 1..Len(cycle_combination_objs) :
           cycle_combination_objs[k].order_product < 1260

\* C11: for the standard 3x3 and two cycles, the statistics of the returned
\* list (the tuple of cycle orders mapped to the number of share patterns,
\* summed over the combinations of that tuple) are {(90,90): 16, (630,9): 4,
\* (180,30): 1, (210,24): 1, (126,36): 8, (360,12): 4, (720,2): 2}.
C11_Stats3x3TwoCycles ==
    (Returned /\ puzzle_orbit_definition = PUZZLE_3x3 /\ num_cycles = 2) =>
        cycle_combination_objs_stats(result) =
            (<<90, 90>> :> 16 @@ <<630, 9>> :> 4 @@ <<180, 30>> :> 1
             @@ <<210, 24>> :> 1 @@ <<126, 36>> :> 8 @@ <<360, 12>> :> 4
             @@ <<720, 2>> :> 2)

\* the run of the 3x3 with two cycles returned, and the filter dropped
\* candidates
C11_Witness ==
    /\ Returned
    /\ puzzle_orbit_definition = PUZZLE_3x3
    /\ num_cycles = 2
    /\ Len(result) = 36
    /\ Len(cycle_combination_objs) > Len(result)
    /\ \E k \in 1..Len(result) : orders_of(result[k]) = <<90, 90>>

\* C12: whatever the memo caches hold when a call of
\* optimal_cycle_combinations starts, after earlier calls on the same or on
\* other puzzle definitions with cache_clear true or false, the call returns
\* the list it returns on empty caches.
C12_CacheIndependent ==
    Returned =>
        result = optimal_cycle_combinations(puzzle_orbit_definition, num_cycles)

\* the third call, of one cycle, returned candidates after it found in the
\* cache a column that only a call of two cycles searches, while entries of
\* another puzzle definition are in the caches too
C12_Witness ==
    /\ Returned
    /\ invocations >= 3
    /\ num_cycles = 1
    /\ result # <<>>
    /\ \E c \in DOMAIN highest_order_cache : \E i \in 1..Len(c) : c[i] = 0
    /\ other_caches # EmptyCache

\* a parity constraint names an orbit that no orbit of the definition has
unknown_orbit_name(pdef) ==
    \E c \in 1..Len(pdef.even_parity_constraints) :
        \E k \in 1..Len(pdef.even_parity_constraints[c].orbit_names) :
            \A i \in 1..Len(pdef.orbits) :
                pdef.orbits[i].name
                    # pdef.even_parity_constraints[c].orbit_names[k]

\* the call has not passed the construction of the helper
NothingEnumerated ==
    /\ pc \in {"call", "error"}
    /\ cycle_combination_objs = <<>>
    /\ result = <<>>

\* C13: when a parity constraint names an orbit that is not among the
\* orbits of the definition, the call fails while the helper is built: no
\* used_cubie_counts is enumerated and no list is returned.
C13_UnknownNameRaises ==
    unknown_orbit_name(puzzle_orbit_definition) => NothingEnumerated

\* the definitions the text calls malformed
malformed(pdef) ==
    \/ \E i \in 1..Len(pdef.orbits) :
           /\ pdef.orbits[i].orientation_status # CannotOrient
           /\ pdef.orbits[i].orientation_status.count < 2
    \/ \E i \in 1..Len(pdef.orbits) : pdef.orbits[i].cubie_count < 1
    \/ \E i, j \in 1..Len(pdef.orbits) :
           i # j /\ pdef.orbits[i].name = pdef.orbits[j].name

\* C14: a definition with a CanOrient count below 2, a non-positive cubie
\* count or two orbits of the same name is rejected at entry: the call stops
\* with an error before any partition table is built and before the
\* enumeration.
C14_MalformedRejected ==
    malformed(puzzle_orbit_definition) =>
        /\ pc \in {"call", "error"}
        /\ reduced_cache = EmptyCache
        /\ highest_order_cache = EmptyCache

\* a non-decreasing sequence of positive integers that sums to n
is_partition_of(s, n) ==
    /\ \A i \in 1..Len(s) : s[i] >= 1
    /\ \A i \in 1..(Len(s) - 1) : s[i] <= s[i + 1]
    /\ SumSeq(s) = n

\* every non-decreasing sequence of integers from `least` on that sums to
\* `total`, built from its first element
RECURSIVE non_decreasing_sums(_, _)
non_decreasing_sums(total, least) ==
    IF total = 0 THEN {<<>>}
    ELSE UNION {{<<first>> \o rest :
                    rest \in non_decreasing_sums(total - first, first)}
                : first \in least..total}

\* C15: for n = 0..12, integer_partitions(n) is the set of all the
\* non-decreasing sequences of positive integers that sum to n, each once
\* (also in the order the set is iterated in), and integer_partitions(0)
\* holds only the empty sequence.
C15_PartitionsExact ==
    pc = "partitions_returned" =>
        /\ \A s \in partition_call.answer :
               is_partition_of(s, partition_call.n)
        /\ partition_call.answer = non_decreasing_sums(partition_call.n, 1)
        /\ partition_call.answer = integer_partitions(partition_call.n)
        /\ partition_call.answer = Range(iter_integer_partitions(partition_call.n))
        /\ Len(iter_integer_partitions(partition_call.n))
               = Cardinality(partition_call.answer)
        /\ partition_call.n = 0 => partition_call.answer = {<<>>}

\* integer_partitions(12) returned its 77 partitions, after tuples it had
\* already were added again
C15_Witness ==
    /\ pc = "partitions_returned"
    /\ partition_call.n = 12
    /\ Cardinality(partition_call.answer) = 77
    /\ <<3, 4, 5>> \in partition_call.answer
    /\ <<1, 1, 1, 1, 1, 1, 1, 1, 1, 1, 1, 1>> \in partition_call.answer

\* the orbit indices (0-based) that constraint c of pdef touches
touched_indices(pdef, c) ==
    {i - 1 : i \in {m \in 1..Len(pdef.orbits) :
                        constraint_flag(pdef, pdef.even_parity_constraints[c], m)}}

lowest_touched(pdef, c) ==
    CHOOSE i \in touched_indices(pdef, c) :
        \A j \in touched_indices(pdef, c) : i <= j

highest_touched(pdef, c) ==
    CHOOSE i \in touched_indices(pdef, c) :
        \A j \in touched_indices(pdef, c) : i >= j

\* next_even_parity_constraint_index after the frame of i (orbit i + 1 of
\* the source just assigned) on the path of a returned cycle, -1 when a
\* check failed on the way
RECURSIVE gate_pointer(_, _, _)
gate_pointer(i, path, helper) ==
    IF i >= Len(path) - 1 THEN 0
    ELSE LET before == gate_pointer(i + 1, path, helper)
         IN  IF before = -1 THEN -1
             ELSE parity_gate(i, path[i + 2], path, before, helper)

\* the constraints whose parity is evaluated at the frame of i
evaluated_at(i, path, helper) ==
    gate_pointer(i, path, helper) - gate_pointer(i + 1, path, helper)

cached_cycles ==
    UNION {Range(highest_order_cache[c]) : c \in DOMAIN highest_order_cache}

\* C17 as stated: the index stored for a constraint is the largest orbit
\* index it touches, the stored indices are in descending order, and the
\* search evaluates the parity of a constraint exactly when its
\* highest-indexed orbit is assigned.
C17_Original ==
    LET pdef == puzzle_orbit_definition
        helper == from_puzzle_orbit_definition(pdef)
        stored == helper.first_constraint_indicies
        constraints == 1..Len(pdef.even_parity_constraints)
    IN  /\ \A v \in 0..(Len(pdef.orbits) - 1) :
               Cardinality({k \in 1..Len(stored) : stored[k] = v})
                   = Cardinality({c \in constraints :
                                     highest_touched(pdef, c) = v})
        /\ \A k \in 1..(Len(stored) - 1) : stored[k] >= stored[k + 1]
        /\ \A cycle \in cached_cycles :
               \A i \in -1..(Len(pdef.orbits) - 2) :
                   /\ gate_pointer(i, cycle.partition_objs, helper) # -1
                   /\ evaluated_at(i, cycle.partition_objs, helper)
                          = Cardinality({c \in constraints :
                                            highest_touched(pdef, c) = i + 1})

\* C17, amended: the index stored for a constraint is the smallest orbit
\* index it touches, the stored indices are in descending order, and the
\* search, which assigns the orbits from the last to the first, evaluates
\* the parity of a constraint exactly when its lowest-indexed orbit is
\* assigned, after all the other orbits it touches.
C17_LowestIndex ==
    LET pdef == puzzle_orbit_definition
        helper == from_puzzle_orbit_definition(pdef)
        stored == helper.first_constraint_indicies
        constraints == 1..Len(pdef.even_parity_constraints)
    IN  /\ \A v \in 0..(Len(pdef.orbits) - 1) :
               Cardinality({k \in 1..Len(stored) : stored[k] = v})
                   = Cardinality({c \in constraints :
                                     lowest_touched(pdef, c) = v})
        /\ \A k \in 1..(Len(stored) - 1) : stored[k] >= stored[k + 1]
        /\ \A cycle \in cached_cycles :
               \A i \in -1..(Len(pdef.orbits) - 2) :
                   /\ gate_pointer(i, cycle.partition_objs, helper) # -1
                   /\ evaluated_at(i, cycle.partition_objs, helper)
                          = Cardinality({c \in constraints :
                                            lowest_touched(pdef, c) = i + 1})

\* a search returned cycles for a definition with a constraint over both
\* orbits and a constraint over the last orbit only: the stored indices
\* are 1 and 0
C17_Witness ==
    /\ from_puzzle_orbit_definition(puzzle_orbit_definition)
           .first_constraint_indicies = <<1, 0>>
    /\ \E c \in 1..Len(puzzle_orbit_definition.even_parity_constraints) :
           /\ lowest_touched(puzzle_orbit_definition, c) = 0
           /\ highest_touched(puzzle_orbit_definition, c) = 1
    /\ \E cycle \in cached_cycles :
           evaluated_at(-1, cycle.partition_objs,
                        from_puzzle_orbit_definition(puzzle_orbit_definition)) = 1
    /\ Returned
    /\ result # <<>>

\* the greatest order of a parity-feasible selection of column c under any
\* of its share vectors
greatest_order(c, pdef, rcache) ==
    LET shares == share_vectors(c, pdef)
        orders == UNION {{selection_order(sel) :
                             sel \in feasible_selections(c, shares[k], pdef, rcache)}
                         : k \in 1..Len(shares)}
    IN  CHOOSE o \in orders : \A other \in orders : o >= other

\* C18: the cycles returned by one call of
\* highest_order_cycles_from_cubie_counts all have the same order, the
\* greatest order found for the budget vector under any share vector.
C18_OneOrder ==
    \A c \in DOMAIN highest_order_cache :
        \A cycle \in Range(highest_order_cache[c]) :
            cycle.order = greatest_order(c, puzzle_orbit_definition,
                                         reduced_cache)

\* the orders of the parity-feasible selections of one entry per orbit
\* from the tables of accepted partitions before the reduction
unreduced_orders(cycle_cubie_counts, share, pdef) ==
    LET tables == AsTuple([i \in 1..Len(cycle_cubie_counts) |->
                      Range(sorted_partition_objs(cycle_cubie_counts[i], i,
                                                  share[i], pdef))])
    IN  {selection_order(sel) :
            sel \in {x \in selections(tables) :
                        satisfies_even_parity(
                            AsTuple([i \in 1..Len(x) |-> x[i].partition]),
                            pdef)}}

\* the orders of the parity-feasible selections from the reduced tables
reduced_orders(cycle_cubie_counts, share, pdef, rcache) ==
    {selection_order(sel) :
        sel \in feasible_selections(cycle_cubie_counts, share, pdef, rcache)}

\* C19: for every budget vector searched and every share vector of it, the
\* maximum LCM over the parity-feasible selections from the reduced tables
\* equals the maximum over the parity-feasible selections from the tables
\* of accepted partitions before dominated entries were removed.
C19_ReductionKeepsOptimum ==
    \A c \in DOMAIN highest_order_cache :
        \A share \in Range(share_vectors(c, puzzle_orbit_definition)) :
            LET full == unreduced_orders(c, share, puzzle_orbit_definition)
                reduced == reduced_orders(c, share, puzzle_orbit_definition,
                                          reduced_cache)
            IN  /\ \A o \in full : \E r \in reduced : r >= o
                /\ \A r \in reduced : \E o \in full : o >= r

\* the table of an orbit under a parity constraint lost dominated entries
\* and kept an entry whose order divides the order of another entry, of
\* the other signature
C19_Witness ==
    \E key \in DOMAIN reduced_cache :
        LET full == sorted_partition_objs(key[1], key[2], key[3],
                                          puzzle_orbit_definition)
            reduced == reduced_cache[key]
        IN  /\ from_puzzle_orbit_definition(puzzle_orbit_definition)
                   .constraint_orbit_flags[key[2]]
            /\ Len(reduced) < Len(full)
            /\ \E a, b \in Range(reduced) :
                   /\ a.order # b.order
                   /\ a.order % b.order = 0
                   /\ sign(a.partition) # sign(b.partition)
            /\ \E c \in DOMAIN highest_order_cache : c[key[2]] = key[1]

\* the accepted partitions of a table: the entries built by the loop of
\* lines 584-649, one per partition that line 633 does not skip
accepted_partitions(cycle_cubie_count, orbit_index, s, pdef) ==
    LET partitions == iter_integer_partitions(cycle_cubie_count)
    IN  UNION {Range(partition_obj_of(partitions[p], s, pdef.orbits[orbit_index])) :
                  p \in 1..Len(partitions)}

\* p dominates q as the claim states it
strictly_dominates(p, q, in_constraint) ==
    /\ \E m \in 2..p.order : p.order = m * q.order
    /\ \/ ~in_constraint
       \/ sign(p.partition) % 2 = sign(q.partition) % 2

\* C20: every table reduced_integer_partitions returned is in non-increasing
\* order of order, has no entry twice, and holds exactly the accepted
\* partitions q that no accepted partition p dominates (p.order a strict
\* multiple of q.order, and the orbit in no parity constraint or p and q of
\* the same signature), whether p itself was removed or not.
C20_ReducedTableExact ==
    \A key \in DOMAIN reduced_cache :
        LET table == reduced_cache[key]
            accepted == accepted_partitions(key[1], key[2], key[3],
                                            puzzle_orbit_definition)
            in_constraint ==
                from_puzzle_orbit_definition(puzzle_orbit_definition)
                    .constraint_orbit_flags[key[2]]
        IN  /\ \A i \in 1..(Len(table) - 1) : table[i].order >= table[i + 1].order
            /\ \A i, j \in 1..Len(table) : table[i] = table[j] => i = j
            /\ Range(table) =
                   {q \in accepted :
                       \A p \in accepted : ~strictly_dominates(p, q, in_constraint)}

\* a table of an orbit under a parity constraint whose removed entries
\* include one that dominates another accepted partition
C20_Witness ==
    \E key \in DOMAIN reduced_cache :
        LET table == reduced_cache[key]
            accepted == accepted_partitions(key[1], key[2], key[3],
                                            puzzle_orbit_definition)
            in_constraint ==
                from_puzzle_orbit_definition(puzzle_orbit_definition)
                    .constraint_orbit_flags[key[2]]
        IN  /\ \E p \in accepted \ Range(table) :
                   \E q \in accepted : strictly_dominates(p, q, in_constraint)
            /\ Len(table) >= 2
            /\ in_constraint

\* the while loop of lines 507-569 with the break of lines 546-547 taken
\* out: every candidate of the level is pushed
RECURSIVE search_loop_without_break(_, _, _, _)
search_loop_without_break(st, all_reduced_integer_partitions, share, helper) ==
    IF st.stack = <<>> THEN st
    ELSE
    LET frame == st.stack[Len(st.stack)]
        popped == SubSeq(st.stack, 1, Len(st.stack) - 1)
        i == frame.i
        path == IF frame.partition_obj # NonePartitionObj
                THEN [st.partition_obj_path EXCEPT ![i + 2] = frame.partition_obj]
                ELSE st.partition_obj_path
        next_index == parity_gate(i, frame.partition_obj, path,
                                  frame.next_even_parity_constraint_index,
                                  helper)
        table == all_reduced_integer_partitions[i + 1]
        next_st ==
            IF next_index = -1
            THEN [st EXCEPT !.stack = popped, !.partition_obj_path = path]
            ELSE IF i # -1
            THEN [st EXCEPT
                     !.stack = popped \o
                         AsTuple([k \in 1..Len(table) |->
                             Frame(i - 1,
                                   (frame.running_order * table[k].order)
                                       \div gcd(frame.running_order, table[k].order),
                                   table[k], next_index)]),
                     !.partition_obj_path = path]
            ELSE IF frame.running_order < st.highest_order
            THEN [st EXCEPT !.stack = popped, !.partition_obj_path = path]
            ELSE [stack |-> popped,
                  partition_obj_path |-> path,
                  highest_order |-> frame.running_order,
                  cycles |->
                      Append(IF frame.running_order > st.highest_order
                             THEN <<>> ELSE st.cycles,
                             Cycle(frame.running_order, share, path))]
    IN  search_loop_without_break(next_st, all_reduced_integer_partitions,
                                  share, helper)

\* the search under one share vector with the break taken out
search_share_without_break(cycle_cubie_counts, share, highest_order, pdef, helper, rcache) ==
    LET tables == all_reduced_integer_partitions_of(cycle_cubie_counts, share,
                                                    pdef, helper, rcache)
        n == Len(tables)
    IN  search_loop_without_break(
            [stack |-> <<Frame(n - 1, 1, NonePartitionObj, 0)>>,
             partition_obj_path |-> AsTuple([m \in 1..n |-> NonePartitionObj]),
             highest_order |-> highest_order,
             cycles |-> <<>>],
            tables, share, helper)

\* C21: for every budget vector searched and every share vector of it, the
\* search that breaks out of a level when running_order * q.order *
\* rest_upper_bounds[i] is below highest_order collects the same cycles, in
\* the same sequence, and ends with the same highest_order as the search
\* that pushes every candidate.
C21_PruningLosesNothing ==
    \A c \in DOMAIN highest_order_cache :
        LET helper == from_puzzle_orbit_definition(puzzle_orbit_definition)
            shares == share_vectors(c, puzzle_orbit_definition)
        IN  \A k \in 1..Len(shares) :
                LET entered == entry_highest_order(c, k, puzzle_orbit_definition,
                                                   helper, reduced_cache)
                    with_break == search_share(c, shares[k], entered,
                                               puzzle_orbit_definition, helper,
                                               reduced_cache)
                    without == search_share_without_break(
                                   c, shares[k], entered,
                                   puzzle_orbit_definition, helper,
                                   reduced_cache)
                IN  /\ with_break.cycles = without.cycles
                    /\ with_break.highest_order = without.highest_order

\* a share vector whose search breaks out of the loop of the first frame:
\* the last candidate of the highest orbit is below the order an earlier
\* share vector left, and the search still collects a cycle
C21_Witness ==
    \E c \in DOMAIN highest_order_cache :
        LET helper == from_puzzle_orbit_definition(puzzle_orbit_definition)
            shares == share_vectors(c, puzzle_orbit_definition)
        IN  \E k \in 2..Len(shares) :
                LET entered == entry_highest_order(c, k, puzzle_orbit_definition,
                                                   helper, reduced_cache)
                    tables == all_reduced_integer_partitions_of(
                                  c, shares[k], puzzle_orbit_definition, helper,
                                  reduced_cache)
                    n == Len(tables)
                IN  /\ pruned(1, tables[n][Len(tables[n])],
                              rest_upper_bounds_of(tables)[n], entered)
                    /\ search_share(c, shares[k], entered,
                                    puzzle_orbit_definition, helper,
                                    reduced_cache).cycles # <<>>

\* the positions of the parts equal to 1
one_positions(p) == {j \in 1..Len(p) : p[j] = 1}

\* the positions of maximal k-adic valuation
critical_positions(p, k) ==
    {j \in 1..Len(p) :
        \A m \in 1..Len(p) : p_adic_valuation(p[j], k) >= p_adic_valuation(p[m], k)}

Rejected == [accepted |-> FALSE, order |-> 0, cleared |-> FALSE]

Accepted(order, cleared) == [accepted |-> TRUE, order |-> order, cleared |-> cleared]

\* the rule of a Zero sum constraint for a given orient_count
zero_sum_rule(p, k, orient_count) ==
    LET disallowed == /\ orient_count = Len(p)
                      /\ \/ k = 2 /\ orient_count % 2 = 1
                         \/ k > 2 /\ orient_count = 1
        critical_is_one == critical_positions(p, k) \cap one_positions(p) # {}
    IN  IF disallowed /\ critical_is_one THEN Rejected
        ELSE IF disallowed THEN Accepted(lcm(p), TRUE)
        ELSE IF orient_count # 0 THEN Accepted(k * lcm(p), FALSE)
        ELSE Accepted(lcm(p), FALSE)

\* the orientation rule; orient_count is the one to use under Zero
orientation_rule(p, status, orient_count) ==
    IF status.kind # "CanOrient" THEN Accepted(lcm(p), FALSE)
    ELSE IF status.sum_constraint = "NONE"
    THEN IF critical_positions(p, status.count) # {}
         THEN Accepted(status.count * lcm(p), FALSE)
         ELSE Accepted(lcm(p), FALSE)
    ELSE zero_sum_rule(p, status.count, orient_count)

\* orient_count as stated: the parts equal to 1, plus 1 if no critical
\* position is a part equal to 1
orient_count_as_stated(p, k) ==
    Cardinality(one_positions(p))
        + (IF critical_positions(p, k) \cap one_positions(p) = {} THEN 1 ELSE 0)

\* orient_count with the 1 added only if a critical position exists
orient_count_with_critical(p, k) ==
    Cardinality(one_positions(p))
        + (IF /\ critical_positions(p, k) # {}
              /\ critical_positions(p, k) \cap one_positions(p) = {}
           THEN 1 ELSE 0)

\* the outcome of the loop body of lines 584-649 agrees with an outcome of
\* the rule
outcome_follows(objs, outcome, status) ==
    IF ~outcome.accepted THEN objs = <<>>
    ELSE /\ Len(objs) = 1
         /\ objs[1].order = outcome.order
         /\ outcome.cleared => objs[1].critical_orient = None
         /\ status.kind # "CanOrient" =>
                objs[1].always_orient = None /\ objs[1].critical_orient = None

\* the partitions handed to the order computation for a cached table
handed_partitions(key) ==
    {IF key[3] THEN <<1>> \o p0 ELSE p0 : p0 \in integer_partitions(key[1])}

\* C22 as stated: every partition handed to the order computation has the
\* outcome of the orientation rule, with orient_count the number of parts
\* equal to 1 plus 1 if no critical position is a part equal to 1.
C22_Original ==
    \A key \in DOMAIN reduced_cache :
        \A p0 \in integer_partitions(key[1]) :
            LET p == IF key[3] THEN <<1>> \o p0 ELSE p0
                orbit == puzzle_orbit_definition.orbits[key[2]]
                status == orbit.orientation_status
            IN  outcome_follows(
                    partition_obj_of(p0, key[3], orbit),
                    orientation_rule(p, status,
                                     orient_count_as_stated(p, status.count)),
                    status)

\* C22 amended: every partition handed to the order computation has the
\* outcome of the orientation rule, with orient_count the number of parts
\* equal to 1 plus 1 if a critical position exists and none is a part
\* equal to 1; the empty partition has order 1 under every rule.
C22_OrderFollowsRule ==
    \A key \in DOMAIN reduced_cache :
        \A p0 \in integer_partitions(key[1]) :
            LET p == IF key[3] THEN <<1>> \o p0 ELSE p0
                orbit == puzzle_orbit_definition.orbits[key[2]]
                status == orbit.orientation_status
                objs == partition_obj_of(p0, key[3], orbit)
            IN  /\ outcome_follows(
                       objs,
                       orientation_rule(p, status,
                                        orient_count_with_critical(p, status.count)),
                       status)
                /\ p = <<>> => Len(objs) = 1 /\ objs[1].order = 1

\* tables were computed for an orbit under a Zero sum constraint with the
\* empty partition, with a rejected partition and with a partition whose
\* critical position was cleared
C22_Witness ==
    \E a, b, c \in DOMAIN reduced_cache :
        LET zero(key) ==
                LET status == puzzle_orbit_definition.orbits[key[2]]
                                  .orientation_status
                IN  status.kind = "CanOrient" /\ status.sum_constraint = "ZERO"
            outcome(key, p) ==
                orientation_rule(
                    p, puzzle_orbit_definition.orbits[key[2]].orientation_status,
                    orient_count_with_critical(
                        p, puzzle_orbit_definition.orbits[key[2]]
                               .orientation_status.count))
        IN  /\ zero(a) /\ a[1] = 0
            /\ zero(b) /\ \E p \in handed_partitions(b) : ~outcome(b, p).accepted
            /\ zero(c) /\ \E p \in handed_partitions(c) : outcome(c, p).cleared

\* orbit i can orient
can_orient(pdef, i) == pdef.orbits[i].orientation_status.kind = "CanOrient"

\* the share vectors allowed for a budget vector: false where the budget
\* is 0 or the orbit cannot orient, true where the budget is 1 and the
\* orbit can orient, either value elsewhere
allowed_shares(c, pdef) ==
    {share \in [1..Len(c) -> BOOLEAN] :
        \A i \in 1..Len(c) :
            /\ (c[i] = 0 \/ ~can_orient(pdef, i)) => ~share[i]
            /\ (c[i] = 1 /\ can_orient(pdef, i)) => share[i]}

\* C23: in every cycle the search returned for a budget vector, share[i]
\* is false when the budget of orbit i is 0 or the orbit cannot orient and
\* true when the budget is 1 and the orbit can orient, the partition of
\* orbit i sums to the budget (plus the leading 1 when shared), and the
\* share vectors tried for the budget vector are every combination of
\* values over the other orbits, each exactly once.
C23_ShareVectors ==
    \A c \in DOMAIN highest_order_cache :
        LET shares == share_vectors(c, puzzle_orbit_definition)
            allowed == allowed_shares(c, puzzle_orbit_definition)
        IN  /\ \A k \in 1..Len(highest_order_cache[c]) :
                   LET cycle == highest_order_cache[c][k]
                   IN  /\ cycle.share \in allowed
                       /\ \A i \in 1..Len(c) :
                              SumSeq(cycle.partition_objs[i].partition)
                                  = c[i] + (IF cycle.share[i] THEN 1 ELSE 0)
            /\ Range(shares) = allowed
            /\ \A k, m \in 1..Len(shares) : shares[k] = shares[m] => k = m

\* a budget vector with two free orbits returned a cycle that shares in
\* one of them only, and a budget vector with a forced share and a forced
\* non-share returned a cycle
C23_Witness ==
    /\ \E c \in DOMAIN highest_order_cache :
           /\ Len(c) = 2
           /\ Cardinality(allowed_shares(c, puzzle_orbit_definition)) = 4
           /\ \E k \in 1..Len(highest_order_cache[c]) :
                  LET share == highest_order_cache[c][k].share
                  IN  share[1] # share[2]
    /\ \E c \in DOMAIN highest_order_cache :
           /\ Len(c) = 2
           /\ \E i, j \in 1..2 : c[i] = 1 /\ c[j] = 0
           /\ can_orient(puzzle_orbit_definition, 1)
           /\ can_orient(puzzle_orbit_definition, 2)
           /\ highest_order_cache[c] # <<>>

\* position d of the tuple is a donor of orbit i for position j
is_donor(cycles, i, j, d) ==
    /\ d # j
    /\ ~cycles[d].share[i]
    /\ \E m \in 1..Len(cycles[d].partition_objs[i].partition) :
           cycles[d].partition_objs[i].partition[m] = 1

\* every cycle of the tuple that shares in an orbit has a donor there
all_shares_have_donor(cycles) ==
    \A j \in 1..Len(cycles) :
        \A i \in 1..Len(cycles[j].share) :
            cycles[j].share[i] =>
                \E d \in 1..Len(cycles) : is_donor(cycles, i, j, d)

\* C24: in every combination the enumerator emitted, for every orbit in
\* which one of its cycles was found with share true, another cycle of the
\* combination was found with share false in that orbit and has a part
\* equal to 1 there; no tuple of cycles without such a donor is among the
\* emitted combinations.
C24_SharesHaveDonor ==
    \A k \in 1..Len(cycle_combination_objs) :
        all_shares_have_donor(cycle_combination_objs[k].cycle_combination)

\* a combination of two cycles was emitted in which one cycle shares and
\* the other is its donor, while two cached cycles whose budgets add up to
\* the same used_cubie_counts, one sharing without a donor, are in no
\* emitted combination
C24_Witness ==
    /\ num_cycles = 2
    /\ \E k \in 1..Len(cycle_combination_objs) :
           LET obj == cycle_combination_objs[k]
           IN  /\ \E j \in 1..2 : \E i \in 1..Len(obj.used_cubie_counts) :
                      obj.cycle_combination[j].share[i]
               /\ \E c1, c2 \in DOMAIN highest_order_cache :
                      /\ \A i \in 1..Len(c1) :
                             c1[i] + c2[i] = obj.used_cubie_counts[i]
                      /\ \E a \in Range(highest_order_cache[c1]) :
                             \E b \in Range(highest_order_cache[c2]) :
                                 /\ ~all_shares_have_donor(<<a, b>>)
                                 /\ \A m \in 1..Len(cycle_combination_objs) :
                                        cycle_combination_objs[m].cycle_combination
                                            \notin {<<a, b>>, <<b, a>>}

\* the number of cycles of the combination found with share[k] true
shared_count(cycles, k) ==
    Cardinality({j \in 1..Len(cycles) : cycles[j].share[k]})

\* the positions whose orbit-k partition holds a 1, except the first
donor_candidates(cycles, k) ==
    LET with_one == {j \in 1..Len(cycles) :
                        \E m \in 1..Len(cycles[j].partition_objs[k].partition) :
                            cycles[j].partition_objs[k].partition[m] = 1}
    IN  {j \in with_one : \E m \in with_one : m < j}

\* one pattern for each way of choosing, per orbit k, shared_count
\* positions among the candidates of the orbit
expected_share_orders(cycles, n_orbits) ==
    LET picks == {pick \in [1..n_orbits -> SUBSET (1..Len(cycles))] :
                     \A k \in 1..n_orbits :
                         /\ pick[k] \subseteq donor_candidates(cycles, k)
                         /\ Cardinality(pick[k]) = shared_count(cycles, k)}
    IN  {[j \in 1..Len(cycles) |-> [k \in 1..n_orbits |-> j \in pick[k]]] :
            pick \in picks}

\* C25: in every emitted combination share_orders is never empty, has no
\* pattern twice and holds exactly one pattern for each way of choosing,
\* independently per orbit k, s_k positions among the positions (in the
\* emitted cycle order) whose orbit-k partition holds a 1, the first such
\* position left out, where s_k is the number of cycles found with
\* share[k] true; every pattern marks s_k positions in orbit k and every
\* marked position holds a 1 in that orbit.
C25_ShareOrders ==
    \A c \in 1..Len(cycle_combination_objs) :
        LET obj == cycle_combination_objs[c]
            cycles == obj.cycle_combination
            n_orbits == Len(obj.used_cubie_counts)
            share_orders == obj.share_orders
        IN  /\ share_orders # <<>>
            /\ \A a, b \in 1..Len(share_orders) :
                   share_orders[a] = share_orders[b] => a = b
            /\ Range(share_orders) = expected_share_orders(cycles, n_orbits)
            /\ \A a \in 1..Len(share_orders) : \A k \in 1..n_orbits :
                   LET marked == {j \in 1..Len(cycles) : share_orders[a][j][k]}
                   IN  /\ Cardinality(marked) = shared_count(cycles, k)
                       /\ \A j \in marked :
                              Contains(cycles[j].partition_objs[k].partition, 1)

\* an emitted combination with two patterns: an orbit with one sharing
\* cycle and two candidate positions
C25_Witness ==
    \E c \in 1..Len(cycle_combination_objs) :
        LET obj == cycle_combination_objs[c]
        IN  /\ Len(obj.share_orders) >= 2
            /\ \E k \in 1..Len(obj.used_cubie_counts) :
                   /\ shared_count(obj.cycle_combination, k) = 1
                   /\ Cardinality(donor_candidates(obj.cycle_combination, k)) = 2

\* the used_cubie_counts whose iteration of the loop of line 223 is done,
\* in the order of the loop
processed_used ==
    LET pdef == puzzle_orbit_definition
        n == Len(pdef.orbits)
        all == {u \in [1..n -> 1..MaxTotalCubies] :
                   \A i \in 1..n : u[i] <= pdef.orbits[i].cubie_count}
        done == IF pc = "enumerate"
                THEN {u \in all : TupleLess(u, used_cubie_counts)}
                ELSE all
    IN  SetAscending(done)

\* the tuples of cycles the product of line 268 yields for one
\* used_cubie_counts, in order
tuples_of_used(used) ==
    LET searched_counts == searched_cycle_cubie_counts(used, num_cycles,
                                                       puzzle_orbit_definition)
    IN  Flatten(AsTuple([k \in 1..Len(searched_counts) |->
            recursive_shared_cycle_combinations(searched_counts[k],
                                                highest_order_cache)]))

\* the sort key of a cycle: its order, then its per-orbit partitions
cycle_key(cycle) == <<<<cycle.order>>>> \o partitions_of(cycle)

\* d with positions 1 and i exchanged
exchanged(d, i) ==
    [j \in 1..Len(d) |-> IF j = 1 THEN d[i] ELSE IF j = i THEN d[1] ELSE d[j]]

\* what the claim makes the enumerator emit for one tuple that passed the
\* share check: the sorted tuple, then one exchange per position of the
\* top order whose partitions differ from those of the position before
stated_emissions(tuple) ==
    LET d == descending_order_cycle_combination_of(tuple)
        positions == SelectSeq(AsTuple([i \in 1..Len(d) |-> i]),
                         LAMBDA i : /\ i > 1
                                    /\ d[i].order = d[1].order
                                    /\ partitions_of(d[i]) # partitions_of(d[i - 1]))
    IN  <<d>> \o AsTuple([m \in 1..Len(positions) |-> exchanged(d, positions[m])])

\* the combinations emitted for one used_cubie_counts, in order
emitted_of_used(used) ==
    LET objs == SelectSeq(cycle_combination_objs,
                          LAMBDA obj : obj.used_cubie_counts = used)
    IN  AsTuple([k \in 1..Len(objs) |-> objs[k].cycle_combination])

\* C26: for every used_cubie_counts whose iteration is done, the
\* combinations emitted are, tuple by tuple in the order of the product,
\* for each tuple that passes the share check: the tuple sorted by (order,
\* per-orbit partitions) descending, then for each position i > 0 of the
\* top order whose partitions differ from those of position i - 1 the
\* sorted tuple with positions 0 and i exchanged, and nothing more; no two
\* combinations emitted from one tuple have the same partitions in
\* position 0.
C26_EmittedVariants ==
    pc \in {"enumerate", "return"} =>
        \A u \in Range(processed_used) :
            LET tuples == tuples_of_used(u)
                passing == SelectSeq(tuples, all_shares_have_donor)
                groups == AsTuple([t \in 1..Len(passing) |->
                              stated_emissions(passing[t])])
            IN  /\ emitted_of_used(u) = Flatten(groups)
                /\ \A t \in 1..Len(groups) :
                       LET d == groups[t][1]
                       IN  /\ \A j \in 1..(Len(d) - 1) :
                                  ~NestedTupleLess(cycle_key(d[j]),
                                                   cycle_key(d[j + 1]))
                           /\ \A a, b \in 1..Len(groups[t]) :
                                  partitions_of(groups[t][a][1])
                                      = partitions_of(groups[t][b][1]) => a = b

\* a tuple of three cycles of one order passed the share check: its
\* second cycle differs from the first in its partitions and the third has
\* the partitions of the second, so two combinations were emitted for it
C26_Witness ==
    /\ pc \in {"enumerate", "return"}
    /\ \E u \in Range(processed_used) :
           \E tuple \in Range(tuples_of_used(u)) :
               LET e == stated_emissions(tuple)
                   d == e[1]
               IN  /\ all_shares_have_donor(tuple)
                   /\ Len(d) = 3
                   /\ d[3].order = d[1].order
                   /\ partitions_of(d[2]) # partitions_of(d[1])
                   /\ partitions_of(d[3]) = partitions_of(d[2])
                   /\ Len(e) = 2
                   /\ \E k \in 1..Len(cycle_combination_objs) :
                          cycle_combination_objs[k].cycle_combination = e[2]

\* a is b with its positions rearranged
is_permutation_of(a, b) ==
    /\ Len(a) = Len(b)
    /\ \E p \in [1..Len(a) -> 1..Len(a)] :
           /\ \A j, l \in 1..Len(a) : p[j] = p[l] => j = l
           /\ \A j \in 1..Len(a) : a[j] = b[p[j]]

\* the positions of d after the first that hold the order of the first
\* and partitions other than those of the position before
tied_exchanges(d) ==
    {i \in 2..Len(d) : /\ d[i].order = d[1].order
                       /\ partitions_of(d[i]) # partitions_of(d[i - 1])}

\* the number of combinations emitted for a tuple of cycles: one, and one
\* more for every such position of the tuple put in descending key order
emissions_of(tuple) ==
    LET arrangements == {d \in [1..Len(tuple) -> Range(tuple)] :
                            is_permutation_of(d, tuple)}
        d == CHOOSE a \in arrangements : is_descending(a)
    IN  1 + Cardinality(tied_exchanges(d))

\* C4 as stated: in every combination the enumerator emits, the extra ones
\* for cycles tied for the top order included, the cycles are in descending
\* order of order and cycles of equal order are in descending lexicographic
\* order of their per-orbit partitions.
C4_Original ==
    \A k \in 1..Len(cycle_combination_objs) :
        is_descending(cycle_combination_objs[k].cycle_combination)

\* C4 amended: in every combination the enumerator emits the cycles are in
\* descending order of order.  The combinations emitted for one
\* used_cubie_counts come tuple by tuple, for the tuples of cycles that
\* pass the share check: the first combination emitted for a tuple holds
\* the cycles of the tuple with the cycles of equal order in descending
\* lexicographic order of their partitions, and every extra combination
\* is that first combination with its first cycle exchanged with a later
\* cycle of the same order, so it is not in descending order of partitions.
C4_DescendingUpToSwap ==
    /\ \A k \in 1..Len(cycle_combination_objs) :
           orders_descending(cycle_combination_objs[k].cycle_combination)
    /\ pc \in {"enumerate", "return"} =>
           \A u \in Range(processed_used) :
               LET passing == SelectSeq(tuples_of_used(u), all_shares_have_donor)
                   emitted == emitted_of_used(u)
                   sizes == AsTuple([t \in 1..Len(passing) |->
                                emissions_of(passing[t])])
               IN  /\ Len(emitted) = SumSeq(sizes)
                   /\ \A t \in 1..Len(passing) :
                          LET start == 1 + SumSeq(SubSeq(sizes, 1, t - 1))
                              first == emitted[start]
                          IN  /\ is_permutation_of(first, passing[t])
                              /\ is_descending(first)
                              /\ \A m \in 1..(sizes[t] - 1) :
                                     LET extra == emitted[start + m]
                                     IN  /\ ~is_descending(extra)
                                         /\ \E i \in 2..Len(first) :
                                                /\ first[i].order = first[1].order
                                                /\ extra = exchanged(first, i)

\* a tuple of three cycles passed the share check in which two cycles of
\* one order came from the product in ascending order of partitions, so
\* the sort reordered them, and an extra combination was emitted for it;
\* in another tuple the product gave a cycle of lower order first
C4_Witness ==
    /\ pc \in {"enumerate", "return"}
    /\ \E u \in Range(processed_used) :
           \E tuple \in Range(tuples_of_used(u)) :
               /\ all_shares_have_donor(tuple)
               /\ Len(tuple) = 3
               /\ \E j, l \in 1..3 :
                      /\ j < l
                      /\ tuple[j].order = tuple[l].order
                      /\ CycleKeyLess(tuple[j], tuple[l])
               /\ \E k \in 1..Len(cycle_combination_objs) :
                      LET cc == cycle_combination_objs[k].cycle_combination
                      IN  /\ cycle_combination_objs[k].used_cubie_counts = u
                          /\ is_permutation_of(cc, tuple)
                          /\ ~is_descending(cc)
    /\ \E u \in Range(processed_used) :
           \E tuple \in Range(tuples_of_used(u)) :
               /\ all_shares_have_donor(tuple)
               /\ \E j, l \in 1..Len(tuple) :
                      j < l /\ tuple[j].order < tuple[l].order

\* a column with an orbit whose budget is neither 0 nor 1 in an orbit that
\* cannot orient
contributes(column, pdef) ==
    \E i \in 1..Len(column) :
        /\ column[i] # 0
        /\ ~(column[i] = 1 /\ pdef.orbits[i].orientation_status.kind = "CannotOrient")

\* the sorted column tuples of every permuted choice of partitions of one
\* used_cubie_counts whose columns all contribute, repetitions kept
offered_cycle_cubie_counts(used, n_cycles, pdef) ==
    LET all == all_partition_cubie_counts_of(used, n_cycles)
        permuted(k) == product([i \in 1..Len(used) |-> unique_permutations(all[k][i])])
        sorted(columns) ==
            SortedReverse(columns,
                AsTuple([i \in 1..n_cycles |->
                    AsTuple([j \in 1..n_cycles |->
                        TupleLess(columns[i], columns[j])])]))
    IN  Flatten(AsTuple([k \in 1..Len(all) |->
            LET columns == AsTuple([m \in 1..Len(permuted(k)) |->
                               columns_of(permuted(k)[m], n_cycles)])
            IN  AsTuple([m \in 1..Len(columns) |-> sorted(columns[m])])]))

\* the used_cubie_counts whose iteration is done or under way
entered_used ==
    IF pc = "enumerate"
    THEN Range(processed_used) \cup {used_cubie_counts}
    ELSE Range(processed_used)

\* C27: for every used_cubie_counts, the column tuples handed to the search
\* of the cycles, over every choice of partitions and every permutation,
\* hold no tuple twice, each is in descending order, and every column of
\* them (and every column the search of the highest order was called
\* with) has an orbit whose budget is neither 0 nor 1 in an orbit that
\* cannot orient.
C27_ColumnsOnce ==
    /\ \A u \in entered_used :
           LET handed == searched_cycle_cubie_counts(u, num_cycles,
                                                     puzzle_orbit_definition)
           IN  /\ \A a, b \in 1..Len(handed) : handed[a] = handed[b] => a = b
               /\ \A a \in 1..Len(handed) :
                      /\ \A j \in 1..(Len(handed[a]) - 1) :
                             ~TupleLess(handed[a][j], handed[a][j + 1])
                      /\ \A j \in 1..Len(handed[a]) :
                             contributes(handed[a][j], puzzle_orbit_definition)
               /\ pc \in {"enumerate", "return"}
                      /\ u \in Range(processed_used) =>
                      \A a \in 1..Len(handed) :
                          Range(handed[a]) \subseteq DOMAIN highest_order_cache
    /\ \A c \in DOMAIN highest_order_cache :
           contributes(c, puzzle_orbit_definition)

\* a used_cubie_counts whose iteration is done, for which a column tuple
\* came up under more than one permutation and was handed over once, and
\* for which a permuted choice was dropped for a column that contributes
\* nothing
C27_Witness ==
    /\ pc = "return"
    /\ \E u \in Range(processed_used) :
           LET handed == searched_cycle_cubie_counts(u, num_cycles,
                                                     puzzle_orbit_definition)
               offered == offered_cycle_cubie_counts(u, num_cycles,
                                                     puzzle_orbit_definition)
               kept == SelectSeq(offered,
                           LAMBDA t : \A j \in 1..Len(t) :
                               contributes(t[j], puzzle_orbit_definition))
           IN  /\ Len(kept) > Len(handed)
               /\ Len(offered) > Len(kept)
               /\ Range(kept) = Range(handed)
               /\ Range(handed) # {}

\* the frame the next iteration of the while loop takes, its branch, and
\* the path array once line 512 has written the frame's partition
next_frame == search_call.stack[stack_pop(search_call.stack)]

next_branch == search_call.branches[stack_pop(search_call.stack)]

next_path ==
    IF next_frame.partition_obj # NonePartitionObj
    THEN [search_call.partition_obj_path
             EXCEPT ![next_frame.i + 2] = next_frame.partition_obj]
    ELSE search_call.partition_obj_path

\* C28: when the frame being processed evaluates a parity constraint (the
\* frame assigns the lowest orbit the constraint touches), the path array
\* holds, for every orbit of the constraint, the partition chosen on the
\* branch of the frame, and no slot is unassigned; when a frame reaches the
\* bottom past the parity gate, every constraint has been evaluated
\* exactly once on its branch; and the loop ends with the cycles of the
\* search of the share vector.
C28_PathArrayHoldsBranch ==
    LET pdef == puzzle_orbit_definition
        helper == from_puzzle_orbit_definition(pdef)
        constraints == 1..Len(pdef.even_parity_constraints)
    IN  /\ pc = "search" /\ search_call.stack # <<>> =>
               /\ \A c \in constraints :
                      lowest_touched(pdef, c) = next_frame.i + 1 =>
                          \A o \in touched_indices(pdef, c) :
                              /\ next_path[o + 1] # NonePartitionObj
                              /\ next_path[o + 1] = next_branch.path[o + 1]
               /\ LET next_index ==
                          parity_gate(next_frame.i, next_frame.partition_obj,
                                      next_path,
                                      next_frame.next_even_parity_constraint_index,
                                      helper)
                  IN  next_frame.i = -1 /\ next_index # -1 =>
                          /\ next_index = Len(pdef.even_parity_constraints)
                          /\ next_branch.evaluated
                                 \o AsTuple([m \in 1..(next_index
                                        - next_frame.next_even_parity_constraint_index)
                                        |-> next_frame.next_even_parity_constraint_index + m])
                                 = AsTuple([m \in 1..next_index |-> m])
        /\ pc = "search" /\ search_call.stack = <<>> =>
               LET c == search_call.cycle_cubie_counts
                   whole == search_share(
                                c, search_call.share,
                                entry_highest_order(c, search_call.share_index,
                                                    pdef, helper,
                                                    reduced_cache),
                                pdef, helper, reduced_cache)
               IN  /\ search_call.cycles = whole.cycles
                   /\ search_call.highest_order = whole.highest_order
        /\ pc \in {"searched", "search_returned"} =>
               search_call.shared_cycles
                   = highest_order_cycles_from_cubie_counts(
                         search_call.cycle_cubie_counts, pdef, helper,
                         reduced_cache)
        /\ pc = "search_returned" =>
               highest_order_cache[search_call.cycle_cubie_counts]
                   = search_call.shared_cycles

\* the frame being processed is at the bottom, on a branch that passed a
\* constraint over both orbits, and the slot of the other orbit was
\* written by a sibling branch before the branch of this frame wrote it
C28_Witness ==
    /\ pc = "search"
    /\ search_call.stack # <<>>
    /\ next_frame.i = -1
    /\ Len(puzzle_orbit_definition.orbits) = 2
    /\ \E c \in 1..Len(puzzle_orbit_definition.even_parity_constraints) :
           touched_indices(puzzle_orbit_definition, c) = {0, 1}
    /\ parity_gate(-1, next_frame.partition_obj, next_path,
                   next_frame.next_even_parity_constraint_index,
                   from_puzzle_orbit_definition(puzzle_orbit_definition)) # -1
    /\ search_call.cycles # <<>>
    /\ \E k \in 1..Len(search_call.cycles) :
           search_call.cycles[k].partition_objs[2] # next_path[2]

\* the tables line 484 requested for the share vector about to be searched
requested_tables ==
    AsTuple([i \in 1..Len(search_call.cycle_cubie_counts) |->
        reduced_cache[<<search_call.cycle_cubie_counts[i], i,
                        search_call.share[i]>>]])

\* the partition of 1s handed to the order computation for a table
all_ones(key) ==
    AsTuple([j \in 1..(key[1] + (IF key[3] THEN 1 ELSE 0)) |-> 1])

\* C29: every table the highest-order search requested, for every budget
\* vector and every share vector tried, has an entry, so the first entries
\* read for rest_upper_bounds exist; every such table holds an accepted
\* partition of its budget, and after the read every rest upper bound is a
\* product of orders, at least 1.
C29_RequestedTablesNonEmpty ==
    /\ pc \in {"bounds", "search", "searched", "search_returned"} =>
           /\ \A i \in 1..Len(requested_tables) :
                  /\ requested_tables[i] # <<>>
                  /\ requested_tables[i][1].order >= 1
           /\ \A key \in DOMAIN reduced_cache :
                  /\ reduced_cache[key] # <<>>
                  /\ accepted_partitions(key[1], key[2], key[3],
                                         puzzle_orbit_definition) # {}
                  /\ \A m \in 1..Len(reduced_cache[key]) :
                         SumSeq(reduced_cache[key][m].partition)
                             = key[1] + (IF key[3] THEN 1 ELSE 0)
    /\ pc \in {"search", "searched", "search_returned"} =>
           /\ Len(search_call.rest_upper_bounds)
                  = Len(search_call.cycle_cubie_counts)
           /\ \A i \in 1..Len(search_call.rest_upper_bounds) :
                  search_call.rest_upper_bounds[i] >= 1

\* the tables of a share vector tried after another were requested and
\* not yet read, and for one of them, in an orbit under a Zero sum
\* constraint, the partition of 1s was rejected
C29_Witness ==
    /\ pc = "bounds"
    /\ search_call.share_index >= 2
    /\ \E i \in 1..Len(search_call.cycle_cubie_counts) :
           LET key == <<search_call.cycle_cubie_counts[i], i,
                        search_call.share[i]>>
               orbit == puzzle_orbit_definition.orbits[i]
           IN  /\ orbit.orientation_status.kind = "CanOrient"
               /\ orbit.orientation_status.sum_constraint = "ZERO"
               /\ key[1] >= 2
               /\ \A obj \in accepted_partitions(key[1], i, key[3],
                                                  puzzle_orbit_definition) :
                      obj.partition # all_ones(key)
               /\ requested_tables[i] # <<>>

\* critical_is_disjoint of lines 619-622, from the lists of lines 597-611
critical_is_disjoint_of(scan) ==
    /\ scan.critical_orient # None
    /\ \/ scan.always_orient = None
       \/ \A j \in Range(scan.critical_orient) :
              ~Contains(scan.always_orient, j)

\* lines 618-634: the Zero-sum branch reaches the assert statement for the
\* partition (unorient_critical holds and line 633 does not skip it)
reaches_assertion(partition, orientation_count) ==
    LET scan == orient_scan(partition, 1, orientation_count, -1, None, None)
        critical_is_disjoint == critical_is_disjoint_of(scan)
    IN  /\ unorient_critical_of(
               partition, orientation_count,
               orient_count_of(scan.always_orient, critical_is_disjoint))
        /\ critical_is_disjoint

\* line 634: the condition of the assert statement
assertion_passes(partition, orientation_count) ==
    Len(orient_scan(partition, 1, orientation_count, -1, None, None)
            .critical_orient) = 1

\* the precondition as stated: orient_count, the parts equal to 1 plus 1
\* when no critical position is a part equal to 1, equals the length and
\* is odd (k = 2) or 1 (k > 2), and no critical position is a part equal
\* to 1
stated_precondition(p, k) ==
    LET orient_count == orient_count_as_stated(p, k)
    IN  /\ orient_count = Len(p)
        /\ \/ k = 2 /\ orient_count % 2 = 1
           \/ k > 2 /\ orient_count = 1
        /\ critical_positions(p, k) \cap one_positions(p) = {}

\* the tables of orbits under a Zero sum constraint
zero_sum_keys ==
    {key \in DOMAIN reduced_cache :
        LET status == puzzle_orbit_definition.orbits[key[2]].orientation_status
        IN  status.kind = "CanOrient" /\ status.sum_constraint = "ZERO"}

\* the orientation count of the orbit of a table
orientation_count_of(key) ==
    puzzle_orbit_definition.orbits[key[2]].orientation_status.count

\* C30: for every partition handed to the order computation of an orbit
\* under a Zero sum constraint, with orientation count k >= 2, the assert
\* statement of line 634 passes whenever it is reached, and whenever the
\* stated precondition holds the partition has exactly one position of
\* maximal k-adic valuation and the assert statement is reached.
C30_AssertionNeverFails ==
    \A key \in zero_sum_keys :
        \A p \in handed_partitions(key) :
            LET k == orientation_count_of(key)
            IN  /\ k >= 2
                /\ reaches_assertion(p, k) => assertion_passes(p, k)
                /\ stated_precondition(p, k) =>
                       /\ Cardinality(critical_positions(p, k)) = 1
                       /\ reaches_assertion(p, k)

\* the assert statement was reached for a partition of three parts or
\* more under k = 2 and for a partition under k = 3, and a partition with
\* one critical position, not a part equal to 1, did not reach it
C30_Witness ==
    /\ \E key \in zero_sum_keys :
           \E p \in handed_partitions(key) :
               /\ orientation_count_of(key) = 2
               /\ Len(p) >= 3
               /\ reaches_assertion(p, 2)
    /\ \E key \in zero_sum_keys :
           \E p \in handed_partitions(key) :
               /\ orientation_count_of(key) = 3
               /\ reaches_assertion(p, 3)
    /\ \E key \in zero_sum_keys :
           \E p \in handed_partitions(key) :
               LET k == orientation_count_of(key)
               IN  /\ Cardinality(critical_positions(p, k)) = 1
                   /\ critical_positions(p, k) \cap one_positions(p) = {}
                   /\ ~reaches_assertion(p, k)

====
